---- MODULE Spec2Model ----
(***************************************************************************)
(* Consensus gossip synchronizer (consensus/syncer.go): one cooperative    *)
(* task per peer, the synchronizer's reactor callbacks, the periodic       *)
(* RoundState timer and the fast-sync glue, all serialised by the mutex    *)
(* the synchronizer shares with the consensus engine.                      *)
(***************************************************************************)
EXTENDS Integers, Sequences, FiniteSets, TLC

(***************************************************************************)
(* Bounds of the model.                                                    *)
(***************************************************************************)
NPeers == 2
MaxRecs == 2
NParts == 2
NVal == 1
MaxHeight == 2
MaxRound == 1
MaxTimers == 2

Peers == 1..NPeers
Recs == 1..MaxRecs
Parts == 0..(NParts - 1)
Timers == 1..MaxTimers

(***************************************************************************)
(* Program constants.                                                      *)
(***************************************************************************)
configSendBPS == -1
configFastSyncThreshold == 4

\* The engine's steps, in the order the code compares them.
stepPropose == 0
stepPrevote == 1
stepPrecommit == 2
stepPrecommitWait == 3
stepCommit == 4

(***************************************************************************)
(* Bit mask: a fixed-length bit vector, [n |-> length, bits |-> set bits]. *)
(***************************************************************************)
NilMask == [n |-> -1, bits |-> {}]
newBitArray(n) == [n |-> n, bits |-> {}]
MaskOf(n, s) == [n |-> n, bits |-> s]
Copy(m) == m
Flip(m) == [n |-> m.n, bits |-> (0..(m.n - 1)) \ m.bits]
AssignAnd(m, o) == [n |-> m.n, bits |-> m.bits \cap o.bits]
Set(m, i) == [n |-> m.n, bits |-> m.bits \cup ({i} \cap (0..(m.n - 1)))]
\* PickRandom returns any index whose bit is set, or -1 when there is none.
PickRandom(m) == IF m.bits = {} THEN {-1} ELSE m.bits

(***************************************************************************)
(* Peer round state and messages.                                          *)
(***************************************************************************)
NilRS == [Height |-> 0, Round |-> 0, Sync |-> FALSE, BlockPartsMask |-> NilMask,
          PrevotesMask |-> NilMask, PrecommitsMask |-> NilMask]

RS(h, r, sync, bpm, pv, pc) ==
    [Height |-> h, Round |-> r, Sync |-> sync, BlockPartsMask |-> bpm,
     PrevotesMask |-> MaskOf(NVal, pv), PrecommitsMask |-> MaskOf(NVal, pc)]

NoMsg == [proto |-> "none", what |-> "none", Height |-> 0, Index |-> -1,
          Round |-> -1, pv |-> {}, pc |-> {}]
\* newVoteListMessage with its VoteList: the commit precommits of a height,
\* the precommits of a round, or the votes GetVotes selected.
VoteListMsg(what, h, r, pv, pc) ==
    [proto |-> "VoteList", what |-> what, Height |-> h, Index |-> -1,
     Round |-> r, pv |-> pv, pc |-> pc]
BlockPartMsg(h, i) ==
    [proto |-> "BlockPart", what |-> "part", Height |-> h, Index |-> i,
     Round |-> -1, pv |-> {}, pc |-> {}]

\* Threads that can own the mutex.
NoThread == <<"none", 0>>
EngineT == <<"engine", 0>>
ReactorT == <<"reactor", 0>>
FsmT == <<"fsm", 0>>
PeerT(r) == <<"peer", r>>
TimerT(k) == <<"timer", k>>

\* The state: the engine as the synchronizer reads it, then
VARIABLES eH, eR, eStep, eParts, ePV, ePC,
    \* the shared mutex and its after-unlock list
    mutex, afterUnlock,
    \* syncer fields
    sRunning, sPeers, sTimer, sFetchCanceler,
    \* peer records and their tasks
    pId, pRunning, pRS, pWake, pPc, pMsg,
    \* the engine's thread, the reactor's thread, the fast-sync client
    ePc, eWaits, phase, rPc, rWaits, vPc, fPc, fetches, fsServer,
    \* the RoundState timers
    tState,
    \* history: what was sent to a peer since its last RoundState, that
    \* RoundState's mask, and whether each send held the mutex
    sentBP, dupSent, sentVL, advBPM, ioHist,
    \* history: the vote lists sent to a peer since its last RoundState
    vlHist,
    \* what the last call of Start and the call of OnReceive in progress return
    ret,
    \* one peer task of a build with a bandwidth cap: the clock, the cap, the
    \* locals of peer.sync, its channel, the pending AfterFunc timers, the
    \* task's position, the size of the message in hand, and what it has sent
    clock, sendBPS, nextSendTime, now, wakeUpChan, afterFuncs, syncPc, msgLen, paceHist

vars == <<eH, eR, eStep, eParts, ePV, ePC, mutex, afterUnlock,
          sRunning, sPeers, sTimer, sFetchCanceler,
          pId, pRunning, pRS, pWake, pPc, pMsg,
          ePc, eWaits, phase, rPc, rWaits, vPc, fPc, fetches, fsServer,
          tState, sentBP, dupSent, sentVL, advBPM, ioHist, vlHist, ret,
          clock, sendBPS, nextSendTime, now, wakeUpChan, afterFuncs, syncPc, msgLen,
          paceHist>>

engineVars == <<eH, eR, eStep, eParts, ePV, ePC>>
syncerVars == <<sRunning, sPeers, sTimer, sFetchCanceler>>
peerVars == <<pId, pRunning, pRS, pWake, pPc, pMsg>>
histVars == <<sentBP, dupSent, sentVL, advBPM, ioHist, vlHist>>
paceVars == <<clock, sendBPS, nextSendTime, now, wakeUpChan, afterFuncs, syncPc, msgLen,
              paceHist>>

(***************************************************************************)
(* The engine interface (Engine, lines 261-275), as the spec describes it. *)
(***************************************************************************)
\* GetCommitBlockParts(h).Parts()
PartSetParts(h) == NParts
\* GetCommitBlockParts(h).GetMask(): a committed block has every part, the
\* block being committed has the parts received so far.
PartSetMask(h) == IF h < eH THEN MaskOf(NParts, Parts) ELSE MaskOf(NParts, eParts)
\* GetVotes(r, prevotesMask, precommitsMask): the votes of round r the engine
\* has among the masked positions.
GetVotes(r, pvm, pcm) == [pv |-> ePV \cap pvm.bits, pc |-> ePC \cap pcm.bits]
VoteListLen(vl) == Cardinality(vl.pv) + Cardinality(vl.pc)

(***************************************************************************)
(* peer.doSync (lines 319-402): the message chosen for record r, with the  *)
(* writes it makes to the peer's round state and to the fetch handle.      *)
(***************************************************************************)
NoFetch == [from |-> 0, to |-> 0, anchor |-> 0]

\* line 331: the peer is behind, or at the height the engine is committing
peerBehindInRound(P) ==
    (P.Height < eH \/ (P.Height = eH /\ eStep >= stepCommit)) /\ P.Round >= eR
peerBehind(P) == P.Height < eH \/ (P.Height = eH /\ eStep >= stepCommit)

\* lines 341-343: the parts the engine has and the peer does not
missingPartsNoFlip(P) == AssignAnd(Copy(P.BlockPartsMask), PartSetMask(P.Height))
missingParts(P) == AssignAnd(Flip(Copy(P.BlockPartsMask)), PartSetMask(P.Height))

\* line 354: p.BlockPartsMask.Set(idx)
markPartNotSent(mask, idx) == mask
markPartSent(mask, idx) == Set(mask, idx)

\* line 359: a fetch is started for a peer far ahead when none is outstanding
needFastSyncNoCheck(P) == P.Height > eH + configFastSyncThreshold
needFastSyncAtGap(P) == P.Height >= eH + configFastSyncThreshold /\ ~sFetchCanceler
needFastSync(P) == P.Height > eH + configFastSyncThreshold /\ ~sFetchCanceler

\* lines 360-363: GetBlockByHeight returns an error
lookupFailsIgnored(bmOk) == FALSE
lookupFails(bmOk) == ~bmOk

\* lines 373, 381, 395: the round state is cleared after a vote list
clearedInPlace == [NilRS EXCEPT !.Height = 1]
clearedRS == NilRS

\* line 378: the round before the engine's
prevRoundIsCurrent == eR
prevRound == eR - 1

\* lines 387-391: the votes of the engine's round the peer does not have
missingVotesAll(P) ==
    GetVotes(eR, MaskOf(NVal, 0..(NVal - 1)), MaskOf(NVal, 0..(NVal - 1)))
missingVotesNoFlip(P) == GetVotes(eR, Copy(P.PrevotesMask), Copy(P.PrecommitsMask))
missingVotes(P) == GetVotes(eR, Flip(Copy(P.PrevotesMask)), Flip(Copy(P.PrecommitsMask)))

doSync(r, bmOk) ==
    LET P == pRS[r]
        out(m, rs, fc, f) == [msg |-> m, rs |-> rs, fc |-> fc, fetch |-> f]
        none == out(NoMsg, P, sFetchCanceler, NoFetch)
    IN
    IF P = NilRS THEN {none}
    ELSE IF ~P.Sync THEN {none}
    ELSE IF peerBehind(P) THEN
        IF P.BlockPartsMask = NilMask
        THEN {out(VoteListMsg("commit", P.Height, -1, {}, {}),
                  [P EXCEPT !.BlockPartsMask = newBitArray(PartSetParts(P.Height))],
                  sFetchCanceler, NoFetch)}
        ELSE {IF idx < 0
              THEN none
              ELSE out(BlockPartMsg(P.Height, idx),
                       [P EXCEPT !.BlockPartsMask = markPartSent(@, idx)],
                       sFetchCanceler, NoFetch)
              : idx \in PickRandom(missingParts(P))}
    ELSE IF P.Height > eH THEN
        IF needFastSync(P)
        THEN IF lookupFails(bmOk)
             THEN {none}
             ELSE {out(NoMsg, P, TRUE, [from |-> eH, to |-> -1, anchor |-> eH - 1])}
        ELSE {none}
    ELSE IF P.Round < eR /\ eStep >= stepPrecommitWait
        THEN {out(VoteListMsg("precommits", eH, eR, {}, {}), clearedRS,
                  sFetchCanceler, NoFetch)}
    ELSE IF P.Round < eR
        THEN {out(VoteListMsg("precommits", eH, prevRound, {}, {}), clearedRS,
                  sFetchCanceler, NoFetch)}
    ELSE IF P.Round = eR
        THEN LET vl == missingVotes(P)
             IN IF VoteListLen(vl) > 0
                THEN {out(VoteListMsg("votes", eH, eR, vl.pv, vl.pc), clearedRS,
                          sFetchCanceler, NoFetch)}
                ELSE {none}
    ELSE {none}

(***************************************************************************)
(* Helpers over the peer list and the record slots.                        *)
(***************************************************************************)
SeqSet(q) == {q[i] : i \in 1..Len(q)}
Min(S) == CHOOSE x \in S : \A y \in S : x <= y
RECURSIVE Ascending(_)
Ascending(S) == IF S = {} THEN <<>> ELSE <<Min(S)>> \o Ascending(S \ {Min(S)})
IdsOf(q) == {pId[q[i]] : i \in 1..Len(q)}
\* the record of the peer list whose id is id (0 when there is none)
RecOfFirst(id) == IF Len(sPeers) > 0 THEN sPeers[1] ELSE 0
RecOf(id) == IF \E i \in 1..Len(sPeers) : pId[sPeers[i]] = id
             THEN sPeers[CHOOSE i \in 1..Len(sPeers) :
                     pId[sPeers[i]] = id /\ \A j \in 1..(i - 1) : pId[sPeers[j]] # id]
             ELSE 0
FreeSlots == {r \in Recs : pPc[r] = "free"}

(***************************************************************************)
(* peer: newPeer, wakeUp, setRoundState, stop (lines 300-317, 463-476).    *)
(***************************************************************************)
\* line 307: the wakeup channel has one slot
wakeUpChanCap == 1

\* lines 471-476: a non-blocking send on the wakeup channel: the wakeup is
\* put in the channel when there is room and dropped otherwise
wakeUpLost(w, r) == w
wakeUpQueued(w, r) == [w EXCEPT ![r] = @ + 1]
wakeUp(w, r) == [w EXCEPT ![r] = IF @ < wakeUpChanCap THEN @ + 1 ELSE @]
wakeUpAll(w, R) == [r \in Recs |-> IF r \in R THEN wakeUp(w, r)[r] ELSE w[r]]

\* lines 466-468: the wait for the done signal is deferred to the unlock
stopWaitsNone(r) == <<>>
stopWaits(r) == <<r>>
stopJoinInline == FALSE
stopJoinDeferred == TRUE

(***************************************************************************)
(* peer.sync (lines 404-461), one action per suspension point.             *)
(***************************************************************************)
\* line 409: <-p.wakeUpChan
TaskWake(r) ==
    /\ pPc[r] = "idle"
    /\ pWake[r] > 0
    /\ pWake' = [pWake EXCEPT ![r] = @ - 1]
    /\ pPc' = [pPc EXCEPT ![r] = "lock"]
    /\ UNCHANGED <<engineVars, mutex, afterUnlock, syncerVars, pId, pRunning, pRS,
                   pMsg, ePc, eWaits, phase, rPc, rWaits, vPc, fPc, fetches, fsServer, ret, paceVars,
                   tState, histVars>>

\* line 412: p.mutex.Lock()
taskLockNoWait == TRUE
taskLockGuard == mutex = NoThread

\* lines 412-425: Lock, the running check and doSync.  nextSendTime stays nil
\* because configSendBPS < 0 (line 441 continues before line 445).
TaskLock(r) ==
    /\ pPc[r] = "lock"
    /\ taskLockGuard
    /\ mutex' = PeerT(r)
    /\ IF ~pRunning[r]
       THEN /\ pPc' = [pPc EXCEPT ![r] = "stopcs"]
            /\ UNCHANGED <<pRS, pMsg, sFetchCanceler, fetches>>
       ELSE \E bmOk \in BOOLEAN : \E res \in doSync(r, bmOk) :
            /\ pPc' = [pPc EXCEPT ![r] = "sync"]
            /\ pRS' = [pRS EXCEPT ![r] = res.rs]
            /\ pMsg' = [pMsg EXCEPT ![r] = res.msg]
            /\ sFetchCanceler' = res.fc
            /\ fetches' = IF res.fetch # NoFetch THEN fetches + 1 ELSE fetches
    /\ UNCHANGED <<engineVars, afterUnlock, sRunning, sPeers, sTimer, pId, pRunning,
                   pWake, ePc, eWaits, phase, rPc, rWaits, vPc, fPc, fsServer, ret, paceVars, tState,
                   histVars>>

\* lines 414-417 and 426-431: Unlock, then signal, wait again or send
TaskUnlock(r) ==
    /\ pPc[r] \in {"sync", "stopcs"}
    /\ mutex' = NoThread
    /\ pPc' = [pPc EXCEPT ![r] = IF pPc[r] = "stopcs" THEN "signal"
                                 ELSE IF pMsg[r] = NoMsg THEN "idle" ELSE "send"]
    /\ UNCHANGED <<engineVars, afterUnlock, syncerVars, pId, pRunning, pRS, pWake,
                   pMsg, ePc, eWaits, phase, rPc, rWaits, vPc, fPc, fetches, fsServer, ret, paceVars,
                   tState, histVars>>

\* the vote lists sent to a peer since its last RoundState: the number of
\* commit lists (counted up to two), the rounds of the other lists, and
\* whether a round was sent twice
NoVL == [commits |-> 0, rounds |-> {}, dup |-> FALSE]
voteListSent(h, m) ==
    IF m.what = "commit"
    THEN [h EXCEPT !.commits = IF @ < 2 THEN @ + 1 ELSE @]
    ELSE [h EXCEPT !.rounds = @ \cup {m.Round}, !.dup = (@ \/ m.Round \in h.rounds)]

\* lines 441-444: without a bandwidth cap the task wakes itself after a send
selfWakeNever(w, r) == w
selfWake(w, r) == IF configSendBPS < 0 THEN wakeUp(w, r) ELSE w

\* lines 433-443: marshal, Unicast (an error is logged and dropped), wakeUp
TaskSend(r, ok) ==
    /\ pPc[r] = "send"
    /\ LET m == pMsg[r]
           bp == <<m.Height, m.Index>>
       IN /\ IF ok /\ m.proto = "BlockPart"
             THEN /\ dupSent' = (dupSent \/ bp \in sentBP[pId[r]])
                  /\ sentBP' = [sentBP EXCEPT ![pId[r]] = @ \cup {bp}]
             ELSE UNCHANGED <<sentBP, dupSent>>
          /\ sentVL' = IF ok /\ m.what = "commit"
                       THEN [sentVL EXCEPT ![pId[r]] = TRUE] ELSE sentVL
          /\ vlHist' = IF ok /\ m.proto = "VoteList"
                       THEN [vlHist EXCEPT ![pId[r]] = voteListSent(@, m)] ELSE vlHist
    /\ ioHist' = ioHist \cup {<<"peer", mutex = PeerT(r)>>}
    /\ pMsg' = [pMsg EXCEPT ![r] = NoMsg]
    /\ pWake' = selfWake(pWake, r)
    /\ pPc' = [pPc EXCEPT ![r] = "idle"]
    /\ UNCHANGED <<engineVars, mutex, afterUnlock, syncerVars, pId, pRunning, pRS,
                   ePc, eWaits, phase, rPc, rWaits, vPc, fPc, fetches, fsServer, ret, paceVars, tState,
                   advBPM>>

(***************************************************************************)
(* The RoundState broadcast and its timer (lines 660-701).                 *)
(***************************************************************************)
\* lines 668-676: the broadcast is skipped when there is no peer.  A send is
\* recorded with its sender (a peer task, OnJoin, the timer's handler, or
\* "caller" for Start and OnEngineStepChange, which take no lock themselves)
\* and with whether the sender holds the mutex
sendIO(h, kind, t) == h \cup {<<kind, mutex' = t>>}
broadcastIO(h, kind, peers, t) == IF Len(peers) > 0 THEN sendIO(h, kind, t) ELSE h

\* lines 685-700: stop the stored timer, arm a new one and store it
sendRoundStateNoTimer ==
    [cur |-> 0, st |-> IF sTimer # 0 /\ tState[sTimer] = "armed"
                       THEN [tState EXCEPT ![sTimer] = "free"] ELSE tState]
sendRoundStateMessage ==
    LET stopped == IF sTimer # 0 /\ tState[sTimer] = "armed"
                   THEN [tState EXCEPT ![sTimer] = "free"]
                   ELSE tState
        k == Min({t \in Timers : stopped[t] = "free"})
    IN [cur |-> k, st |-> [stopped EXCEPT ![k] = "armed"]]

\* the timer fires: its callback is started and waits for the mutex
TimerFire(k) ==
    /\ tState[k] = "armed"
    /\ Cardinality({t \in Timers : tState[t] \notin {"free", "armed"}}) < MaxTimers - 1
    /\ tState' = [tState EXCEPT ![k] = "fired"]
    /\ UNCHANGED <<engineVars, mutex, afterUnlock, syncerVars, peerVars, ePc, eWaits,
                   phase, rPc, rWaits, vPc, fPc, fetches, fsServer, ret, paceVars, histVars>>

\* line 694: a callback of a timer that is no longer the stored one returns
timerIsAny(k) == TRUE
timerIsStored(k) == sTimer = k

\* lines 690-699: the callback
TimerLock(k) ==
    /\ tState[k] = "fired"
    /\ mutex = NoThread
    /\ mutex' = TimerT(k)
    /\ IF ~timerIsStored(k)
       THEN /\ tState' = [tState EXCEPT ![k] = "stale"]
            /\ UNCHANGED <<sTimer, ioHist>>
       ELSE /\ sTimer' = sendRoundStateMessage.cur
            /\ tState' = [sendRoundStateMessage.st EXCEPT ![k] = "ran"]
            /\ ioHist' = broadcastIO(ioHist, "timer", sPeers, TimerT(k))
    /\ UNCHANGED <<engineVars, afterUnlock, sRunning, sPeers, sFetchCanceler, peerVars,
                   ePc, eWaits, phase, rPc, rWaits, vPc, fPc, fetches, fsServer, ret, paceVars,
                   sentBP, dupSent, sentVL, advBPM, vlHist>>

TimerUnlock(k) ==
    /\ tState[k] \in {"stale", "ran"}
    /\ mutex' = NoThread
    /\ tState' = [tState EXCEPT ![k] = "free"]
    /\ UNCHANGED <<engineVars, afterUnlock, syncerVars, peerVars, ePc, eWaits, phase,
                   rPc, rWaits, vPc, fPc, fetches, fsServer, ret, paceVars, histVars>>

(***************************************************************************)
(* The engine (external): its steps, and what the synchronizer's calls     *)
(* into it do, as the spec describes them.                                 *)
(***************************************************************************)
EngineState(h, r, st, parts, pv, pc) ==
    [H |-> h, R |-> r, step |-> st, parts |-> parts, pv |-> pv, pc |-> pc]

\* the engine's next states: the next step of the round, the commit of the
\* block (with the parts it has so far), the next round, the next height
EngineNext ==
    (IF eStep < stepPrecommitWait
     THEN {EngineState(eH, eR, eStep + 1, eParts, ePV, ePC)} ELSE {})
    \cup (IF eStep = stepPrecommitWait
          THEN {EngineState(eH, eR, stepCommit, ps, ePV, ePC) : ps \in SUBSET Parts}
          ELSE {})
    \cup (IF eStep = stepPrecommitWait /\ eR < MaxRound
          THEN {EngineState(eH, eR + 1, stepPropose, {}, {}, {})} ELSE {})
    \cup (IF eStep = stepCommit /\ eParts = Parts /\ eH < MaxHeight
          THEN {EngineState(eH + 1, 0, stepPropose, {}, {}, {})} ELSE {})

\* ReceiveBlock: the engine adopts the fetched block and moves to the next height
AfterReceiveBlock ==
    IF eH < MaxHeight THEN EngineState(eH + 1, 0, stepPropose, {}, {}, {})
    ELSE EngineState(eH, eR, eStep, eParts, ePV, ePC)

(***************************************************************************)
(* syncer.OnEngineStepChange (lines 643-658), for the engine state es.     *)
(***************************************************************************)
\* lines 648-653: the peers woken
stepWakes(es) ==
    IF es.step = stepPrecommitWait \/ es.step = stepCommit
    THEN {r \in SeqSet(sPeers) : pRS[r] # NilRS}
    ELSE {}
\* line 655: the steps at which the RoundState is sent again
stepSendsOnPropose(es) == es.step = stepPropose
stepSends(es) == es.step = stepPropose \/ es.step = stepCommit

OnEngineStepChange(es, t) ==
    IF ~sRunning
    THEN UNCHANGED <<pWake, sTimer, tState, ioHist>>
    ELSE /\ pWake' = wakeUpAll(pWake, stepWakes(es))
         /\ IF stepSends(es)
            THEN /\ sTimer' = sendRoundStateMessage.cur
                 /\ tState' = sendRoundStateMessage.st
                 /\ ioHist' = broadcastIO(ioHist, "caller", sPeers, t)
            ELSE UNCHANGED <<sTimer, tState, ioHist>>

SetEngine(es) ==
    /\ eH' = es.H
    /\ eR' = es.R
    /\ eStep' = es.step
    /\ eParts' = es.parts
    /\ ePV' = es.pv
    /\ ePC' = es.pc

(***************************************************************************)
(* The engine's thread: it holds the shared mutex when it changes step and *)
(* when it calls Start and Stop.                                           *)
(***************************************************************************)
EngineStep ==
    /\ ePc = "idle"
    /\ mutex = NoThread
    /\ mutex' = EngineT
    /\ ePc' = "unlock"
    /\ \E es \in EngineNext :
        /\ SetEngine(es)
        /\ OnEngineStepChange(es, EngineT)
    /\ UNCHANGED <<afterUnlock, sRunning, sPeers, sFetchCanceler, pId, pRunning, pRS,
                   pPc, pMsg, eWaits, phase, rPc, rWaits, vPc, fPc, fetches, fsServer, ret, paceVars,
                   sentBP, dupSent, sentVL, advBPM, vlHist>>

\* lines 514-517: RegisterReactor fails and Start returns the error
registerFailsIgnored(regOk) == FALSE
registerFails(regOk) == ~regOk

\* syncer.Start (lines 512-530); ids is what GetPeers returns
EngineStart(can, regOk, ids) ==
    /\ can
    /\ ePc = "idle"
    /\ mutex = NoThread
    /\ mutex' = EngineT
    /\ ePc' = "unlock"
    /\ ret' = [ret EXCEPT !.Start = IF registerFails(regOk) THEN "err" ELSE "nil"]
    /\ UNCHANGED paceVars
    /\ IF registerFails(regOk)
       THEN UNCHANGED <<syncerVars, peerVars, phase, tState, ioHist>>
       ELSE LET old == {r \in SeqSet(sPeers) : pPc[r] = "exit"}
                free == Ascending(FreeSlots \cup old)
                idq == Ascending(ids)
                slots == SubSeq(free, 1, Len(idq))
                new == SeqSet(slots)
                at(r) == CHOOSE i \in 1..Len(slots) : slots[i] = r
            IN /\ Len(idq) <= Len(free)
               /\ sPeers' = slots
               /\ pId' = [r \in Recs |-> IF r \in new THEN idq[at(r)]
                                         ELSE IF r \in old THEN 0 ELSE pId[r]]
               /\ pRunning' = [r \in Recs |-> IF r \in new THEN TRUE
                                              ELSE IF r \in old THEN FALSE ELSE pRunning[r]]
               /\ pRS' = [r \in Recs |-> IF r \in new \cup old THEN NilRS ELSE pRS[r]]
               /\ pWake' = [r \in Recs |-> IF r \in new \cup old THEN 0 ELSE pWake[r]]
               /\ pMsg' = [r \in Recs |-> IF r \in new \cup old THEN NoMsg ELSE pMsg[r]]
               /\ pPc' = [r \in Recs |-> IF r \in new THEN "idle"
                                         ELSE IF r \in old THEN "free" ELSE pPc[r]]
               /\ sTimer' = sendRoundStateMessage.cur
               /\ tState' = sendRoundStateMessage.st
               /\ ioHist' = broadcastIO(ioHist, "caller", slots, EngineT)
               /\ sRunning' = TRUE
               /\ phase' = "started"
               /\ UNCHANGED sFetchCanceler
    /\ UNCHANGED <<engineVars, afterUnlock, eWaits, rPc, rWaits, vPc, fPc, fetches,
                   fsServer, sentBP, dupSent, sentVL, advBPM, vlHist>>

\* lines 704-706: every peer of the list is stopped
stopsNone == {}
stopsAll == SeqSet(sPeers)
\* lines 710-713: the timer is stopped and forgotten
timerAfterStop == 0

\* syncer.Stop (lines 703-719)
EngineStop(can) ==
    /\ can
    /\ ePc = "idle"
    /\ mutex = NoThread
    /\ mutex' = EngineT
    /\ LET stopped == stopsAll
           waits == SelectSeq(sPeers, LAMBDA r : r \in stopped /\ stopWaits(r) # <<>>)
       IN /\ pRunning' = [r \in Recs |-> IF r \in stopped THEN FALSE ELSE pRunning[r]]
          /\ pWake' = wakeUpAll(pWake, stopped)
          /\ IF stopJoinDeferred
             THEN /\ afterUnlock' = afterUnlock \o waits
                  /\ ePc' = "unlock"
                  /\ UNCHANGED eWaits
             ELSE /\ eWaits' = waits
                  /\ ePc' = IF waits = <<>> THEN "unlock" ELSE "join"
                  /\ UNCHANGED afterUnlock
    /\ sRunning' = FALSE
    /\ tState' = IF sTimer # 0 /\ tState[sTimer] = "armed"
                 THEN [tState EXCEPT ![sTimer] = "free"] ELSE tState
    /\ sTimer' = timerAfterStop
    /\ fsServer' = FALSE
    /\ fetches' = IF sFetchCanceler THEN 0 ELSE fetches
    /\ sFetchCanceler' = FALSE
    /\ phase' = "stopped"
    /\ UNCHANGED <<engineVars, sPeers, pId, pRS, pPc, pMsg, rPc, rWaits, vPc, fPc,
                   ret, paceVars, histVars>>

\* Mutex.Unlock: the functions given to CallAfterUnlock run after the unlock
EngineUnlock ==
    /\ ePc = "unlock"
    /\ mutex' = NoThread
    /\ eWaits' = afterUnlock
    /\ afterUnlock' = <<>>
    /\ ePc' = IF afterUnlock = <<>> THEN "idle" ELSE "join"
    /\ UNCHANGED <<engineVars, syncerVars, peerVars, phase, rPc, rWaits, vPc, fPc,
                   fetches, fsServer, ret, paceVars, tState, histVars>>

\* the task's done signal (line 416) meets the stopper's receive (line 467)
\* and the task ends (line 417): nothing reads its channel and round state
\* again; its slot is free once the peer list has dropped the record
TaskDone(r) ==
    /\ pPc[r] = "signal"
    /\ pPc' = [pPc EXCEPT ![r] = IF r \in SeqSet(sPeers) THEN "exit" ELSE "free"]
    /\ pId' = [pId EXCEPT ![r] = IF r \in SeqSet(sPeers) THEN @ ELSE 0]
    /\ pRS' = [pRS EXCEPT ![r] = NilRS]
    /\ pWake' = [pWake EXCEPT ![r] = 0]
    /\ pMsg' = [pMsg EXCEPT ![r] = NoMsg]

EngineJoin ==
    /\ ePc = "join"
    /\ eWaits # <<>>
    /\ TaskDone(Head(eWaits))
    /\ eWaits' = Tail(eWaits)
    /\ ePc' = IF Tail(eWaits) # <<>> THEN "join"
              ELSE IF mutex = EngineT THEN "unlock" ELSE "idle"
    /\ UNCHANGED <<engineVars, mutex, afterUnlock, syncerVars, pRunning, phase, rPc,
                   rWaits, vPc, fPc, fetches, fsServer, ret, paceVars, tState, histVars>>

(***************************************************************************)
(* The reactor callbacks.  OnJoin and OnLeave come from the network's      *)
(* event thread, OnReceive and OnFailure from its receive thread.          *)
(***************************************************************************)
\* lines 610-614: a peer already in the list is not added again
isNewPeerAlways(id) == TRUE
isNewPeer(id) == \A i \in 1..Len(sPeers) : pId[sPeers[i]] # id

\* syncer.OnJoin (lines 600-619)
OnJoin(id) ==
    /\ rPc = "idle"
    /\ mutex = NoThread
    /\ mutex' = ReactorT
    /\ rPc' = "unlock"
    /\ IF ~sRunning \/ ~isNewPeer(id)
       THEN UNCHANGED <<sPeers, peerVars, ioHist>>
       ELSE /\ FreeSlots # {}
            /\ LET r == Min(FreeSlots) IN
               /\ sPeers' = Append(sPeers, r)
               /\ pId' = [pId EXCEPT ![r] = id]
               /\ pRunning' = [pRunning EXCEPT ![r] = TRUE]
               /\ pRS' = [pRS EXCEPT ![r] = NilRS]
               /\ pWake' = [pWake EXCEPT ![r] = 0]
               /\ pPc' = [pPc EXCEPT ![r] = "idle"]
               /\ pMsg' = [pMsg EXCEPT ![r] = NoMsg]
               /\ ioHist' = sendIO(ioHist, "join", ReactorT)
    /\ UNCHANGED <<engineVars, afterUnlock, sRunning, sTimer, sFetchCanceler, ePc,
                   eWaits, phase, rWaits, vPc, fPc, fetches, fsServer, ret, paceVars, tState,
                   sentBP, dupSent, sentVL, advBPM, vlHist>>

\* lines 633-636: the last record takes the place of the removed one
swapNoPop(q, i) == [q EXCEPT ![i] = q[Len(q)]]
swapAndPop(q, i) ==
    LET last == Len(q) IN SubSeq([q EXCEPT ![i] = q[last]], 1, last - 1)

\* syncer.OnLeave (lines 621-641)
OnLeave(id) ==
    /\ rPc = "idle"
    /\ mutex = NoThread
    /\ mutex' = ReactorT
    /\ IF ~sRunning \/ RecOf(id) = 0
       THEN /\ rPc' = "unlock"
            /\ UNCHANGED <<sPeers, pRunning, pWake, afterUnlock, rWaits>>
       ELSE LET r == RecOf(id)
                i == CHOOSE j \in 1..Len(sPeers) : sPeers[j] = r
            IN /\ sPeers' = swapAndPop(sPeers, i)
               /\ pRunning' = [pRunning EXCEPT ![r] = FALSE]
               /\ pWake' = wakeUp(pWake, r)
               /\ IF stopJoinDeferred
                  THEN /\ afterUnlock' = afterUnlock \o stopWaits(r)
                       /\ rPc' = "unlock"
                       /\ UNCHANGED rWaits
                  ELSE /\ rWaits' = stopWaits(r)
                       /\ rPc' = IF stopWaits(r) = <<>> THEN "unlock" ELSE "join"
                       /\ UNCHANGED afterUnlock
    /\ UNCHANGED <<engineVars, sRunning, sTimer, sFetchCanceler, pId, pRS, pPc, pMsg,
                   ePc, eWaits, phase, vPc, fPc, fetches, fsServer, ret, paceVars, tState,
                   histVars>>

ReactorUnlock ==
    /\ rPc = "unlock"
    /\ mutex' = NoThread
    /\ rWaits' = afterUnlock
    /\ afterUnlock' = <<>>
    /\ rPc' = IF afterUnlock = <<>> THEN "idle" ELSE "join"
    /\ UNCHANGED <<engineVars, syncerVars, peerVars, ePc, eWaits, phase, vPc, fPc,
                   fetches, fsServer, ret, paceVars, tState, sentBP, dupSent, sentVL, advBPM, vlHist, ioHist>>

ReactorJoin ==
    /\ rPc = "join"
    /\ rWaits # <<>>
    /\ TaskDone(Head(rWaits))
    /\ rWaits' = Tail(rWaits)
    /\ rPc' = IF Tail(rWaits) # <<>> THEN "join"
              ELSE IF mutex = ReactorT THEN "unlock" ELSE "idle"
    /\ UNCHANGED <<engineVars, mutex, afterUnlock, syncerVars, pRunning, ePc, eWaits,
                   phase, vPc, fPc, fetches, fsServer, ret, paceVars, tState, histVars>>

(***************************************************************************)
(* Inbound messages, as unmarshalMessage and verify leave them.            *)
(***************************************************************************)
InMsg(kind, h, i, res, rs, pv, pc) ==
    [kind |-> kind, Height |-> h, Index |-> i, res |-> res, rs |-> rs,
     pv |-> pv, pc |-> pc]
\* a message that fails unmarshalMessage or verify
InBad == InMsg("bad", 0, 0, "none", NilRS, {}, {})
InRoundState(rs) == InMsg("RoundState", 0, 0, "none", rs, {}, {})
InVoteList(pv, pc) == InMsg("VoteList", 0, 0, "none", NilRS, pv, pc)
InBlockPart(h, i, res) == InMsg("BlockPart", h, i, res, NilRS, {}, {})

\* ReceiveBlockPartMessage: the engine adds a part of the block it is
\* committing ("added"), refuses the message with an error ("rejected"), or
\* has no use for it and returns a negative index without an error ("ignored")
EngineAnswers(h, i) ==
    IF h = eH /\ eStep = stepCommit /\ i \in Parts \ eParts
    THEN {"added", "rejected"}
    ELSE {"ignored", "rejected"}

\* lines 559-560: the peers a received block part may be forwarded to
partWakesAnyHeight(m) ==
    {r \in SeqSet(sPeers) : pRS[r] # NilRS /\ pRS[r].BlockPartsMask # NilMask}
partWakes(m) ==
    {r \in SeqSet(sPeers) : /\ pRS[r] # NilRS
                            /\ pRS[r].Height = m.Height
                            /\ pRS[r].Height = eH
                            /\ pRS[r].BlockPartsMask # NilMask}

\* lines 565-566: the records a received RoundState is stored in
senderRecordsAny(id) == SeqSet(sPeers)
senderRecords(id) == {r \in SeqSet(sPeers) : pId[r] = id}

\* lines 537-539: a synchronizer that is not running returns at once
notRunningNever == FALSE
notRunning == ~sRunning

\* lines 541-549: unmarshalMessage or verify returns an error
isBadIgnored(m) == FALSE
isBad(m) == m.kind = "bad"

\* lines 538, 544, 548, 555, 582: what OnReceive returns; the error is the
\* one of unmarshalMessage or verify, or the engine's
receiveResult(m) ==
    IF notRunning THEN "false, nil"
    ELSE IF isBad(m) THEN "false, message error"
    ELSE IF m.kind = "BlockPart" /\ m.res = "rejected" THEN "false, engine error"
    ELSE "true, nil"

\* line 316: setRoundState wakes the task of each record it is called on
setRoundStateNoWake(w, R) == w
setRoundStateWakes(w, R) == wakeUpAll(w, R)

\* syncer.OnReceive (lines 532-583)
OnReceive(m, id) ==
    /\ vPc = "idle"
    /\ mutex = NoThread
    /\ mutex' = <<"receive", 0>>
    /\ vPc' = "unlock"
    /\ ret' = [ret EXCEPT !.OnReceive = receiveResult(m)]
    /\ UNCHANGED paceVars
    /\ IF notRunning \/ isBad(m)
       THEN UNCHANGED <<engineVars, pRS, pWake, sentBP, sentVL, advBPM, vlHist>>
       ELSE IF m.kind = "BlockPart"
       THEN /\ m.res \in EngineAnswers(m.Height, m.Index)
            /\ eParts' = IF m.res = "added" THEN eParts \cup {m.Index} ELSE eParts
            /\ pWake' = IF m.res = "rejected" THEN pWake
                        ELSE wakeUpAll(pWake, partWakes(m))
            /\ UNCHANGED <<eH, eR, eStep, ePV, ePC, pRS, sentBP, sentVL, advBPM, vlHist>>
       ELSE IF m.kind = "RoundState"
       THEN LET R == senderRecords(id) IN
            /\ pRS' = [r \in Recs |-> IF r \in R THEN m.rs ELSE pRS[r]]
            /\ pWake' = setRoundStateWakes(pWake, R)
            /\ sentBP' = IF R # {} THEN [sentBP EXCEPT ![id] = {}] ELSE sentBP
            /\ sentVL' = IF R # {} THEN [sentVL EXCEPT ![id] = FALSE] ELSE sentVL
            /\ advBPM' = IF R # {} THEN [advBPM EXCEPT ![id] = m.rs.BlockPartsMask]
                         ELSE advBPM
            /\ vlHist' = IF R # {} THEN [vlHist EXCEPT ![id] = NoVL] ELSE vlHist
            /\ UNCHANGED engineVars
       ELSE /\ ePV' = ePV \cup m.pv
            /\ ePC' = ePC \cup m.pc
            /\ UNCHANGED <<eH, eR, eStep, eParts, pRS, pWake, sentBP, sentVL, advBPM, vlHist>>
    /\ UNCHANGED <<afterUnlock, syncerVars, pId, pRunning, pPc, pMsg, ePc, eWaits,
                   phase, rPc, rWaits, fPc, fetches, fsServer, tState, dupSent,
                   ioHist>>

\* syncer.OnFailure (lines 585-598)
OnFailure ==
    /\ vPc = "idle"
    /\ mutex = NoThread
    /\ mutex' = <<"receive", 0>>
    /\ vPc' = "unlock"
    /\ UNCHANGED <<engineVars, afterUnlock, syncerVars, peerVars, ePc, eWaits, phase,
                   rPc, rWaits, fPc, fetches, fsServer, ret, paceVars, tState, histVars>>

ReceiveUnlock ==
    /\ vPc = "unlock"
    /\ mutex' = NoThread
    /\ vPc' = "idle"
    /\ ret' = [ret EXCEPT !.OnReceive = "none"]
    /\ UNCHANGED paceVars
    /\ UNCHANGED <<engineVars, afterUnlock, syncerVars, peerVars, ePc, eWaits, phase,
                   rPc, rWaits, fPc, fetches, fsServer, tState, histVars>>

(***************************************************************************)
(* The fast-sync client's callbacks (lines 721-743).                       *)
(***************************************************************************)
\* the fetch delivers a block, or ends, and calls the listener
FsmCall(kind) ==
    /\ fPc = "idle"
    /\ fetches > 0
    /\ fPc' = kind
    /\ fetches' = IF kind = "callEnd" THEN fetches - 1 ELSE fetches
    /\ UNCHANGED <<engineVars, mutex, afterUnlock, syncerVars, peerVars, ePc, eWaits,
                   phase, rPc, rWaits, vPc, fsServer, ret, paceVars, tState, histVars>>

\* line 742: OnEnd forgets the cancel handle
handleKeptAfterEnd == TRUE
handleAfterEnd == FALSE

\* syncer.OnBlock (lines 721-731) and syncer.OnEnd (lines 733-743)
FsmLock ==
    /\ fPc \in {"callBlock", "callEnd"}
    /\ mutex = NoThread
    /\ mutex' = FsmT
    /\ fPc' = "unlock"
    /\ IF ~sRunning
       THEN UNCHANGED <<engineVars, sFetchCanceler, pWake, sTimer, tState, ioHist>>
       ELSE IF fPc = "callBlock"
       THEN /\ SetEngine(AfterReceiveBlock)
            /\ IF eH < MaxHeight
               THEN OnEngineStepChange(AfterReceiveBlock, FsmT)
               ELSE UNCHANGED <<pWake, sTimer, tState, ioHist>>
            /\ UNCHANGED sFetchCanceler
       ELSE /\ sFetchCanceler' = handleAfterEnd
            /\ UNCHANGED <<engineVars, pWake, sTimer, tState, ioHist>>
    /\ UNCHANGED <<afterUnlock, sRunning, sPeers, pId, pRunning, pRS, pPc, pMsg, ePc,
                   eWaits, phase, rPc, rWaits, vPc, fetches, fsServer, ret, paceVars, sentBP,
                   dupSent, sentVL, advBPM, vlHist>>

FsmUnlock ==
    /\ fPc = "unlock"
    /\ mutex' = NoThread
    /\ fPc' = "idle"
    /\ UNCHANGED <<engineVars, afterUnlock, syncerVars, peerVars, ePc, eWaits, phase,
                   rPc, rWaits, vPc, fetches, fsServer, ret, paceVars, tState, histVars>>

(***************************************************************************)
(* The inputs of the environment.                                          *)
(***************************************************************************)
\* a height more than the threshold above every height of the engine
FarHeight == MaxHeight + configFastSyncThreshold + 1

\* round states of a peer that is behind or at the engine's height
RSNear ==
    {RS(1, 0, TRUE, NilMask, {}, {}),
     RS(1, 0, TRUE, MaskOf(NParts, {}), {}, {}),
     RS(1, 0, TRUE, MaskOf(NParts, {0}), {}, {}),
     RS(1, 0, FALSE, NilMask, {}, {}),
     RS(MaxHeight, 0, TRUE, NilMask, {}, {})}
\* round states of a peer that is ahead: always beyond the threshold, and
\* beyond it only while the engine is at its first height
RSFar ==
    {RS(FarHeight, 0, TRUE, NilMask, {}, {}),
     RS(FarHeight - MaxHeight + 1, 0, TRUE, NilMask, {}, {})}
\* a peer a round behind that has every part of the block
RSBehindRound == RS(MaxHeight, 0, TRUE, MaskOf(NParts, Parts), {}, {})

RoundStates(S) == {InRoundState(rs) : rs \in S}
VoteLists == {InVoteList({0}, {}), InVoteList({}, {0})}
BlockParts == {InBlockPart(h, i, res) : h \in 1..MaxHeight, i \in Parts,
                                        res \in {"added", "rejected", "ignored"}}

(***************************************************************************)
(* Pacing in peer.sync (lines 419-424 and 445-459).  With configSendBPS =   *)
(* -1 line 441 continues before line 445; these actions are the loop of one *)
(* running task in a build whose constant is a positive number sendBPS.     *)
(***************************************************************************)
MaxClock == 6
MaxSends == 3
\* time.Second in ticks of the clock
Second == 2
\* the caps tried for the constant, and len(msgBS) of the messages
Caps == {1, 2}
Sizes == {1, 2}
\* a nil *time.Time
NilTime == -1
NoSend == [at |-> NilTime, now |-> NilTime, stored |-> NilTime, next |-> NilTime, len |-> 0]

\* line 420: nextSendTime != nil && now.Before(*nextSendTime)
tooEarlyNever(nst, t) == FALSE
tooEarly(nst, t) == nst # NilTime /\ t < nst

\* lines 445-447: a nil nextSendTime becomes now, any other value is kept
paceBaseNow(nst, t) == t
paceBase(nst, t) == IF nst = NilTime THEN t ELSE nst

\* line 448: delta := time.Second * time.Duration(len(msgBS)) / configSendBPS
delta(len, bps) == (Second * len) \div bps

\* the task as it is made by newPeer and started (lines 300-312, 404-405)
PaceInit(bps) ==
    /\ clock = 0 /\ sendBPS = bps
    /\ nextSendTime = NilTime /\ now = 0
    /\ wakeUpChan = 0 /\ afterFuncs = {}
    /\ syncPc = "recv" /\ msgLen = 0
    /\ paceHist = [sends |-> 0, early |-> 0, last |-> NoSend]

notPaceVars == <<engineVars, mutex, afterUnlock, syncerVars, peerVars, ePc, eWaits, phase,
                 rPc, rWaits, vPc, fPc, fetches, fsServer, tState, histVars, ret>>

\* time passes
PaceTick ==
    /\ clock < MaxClock
    /\ clock' = clock + 1
    /\ UNCHANGED <<notPaceVars, sendBPS, nextSendTime, now, wakeUpChan, afterFuncs, syncPc,
                   msgLen, paceHist>>

\* lines 471-476: p.wakeUp() called by the synchronizer
PaceWakeUp ==
    /\ wakeUpChan < wakeUpChanCap
    /\ wakeUpChan' = wakeUpChan + 1
    /\ UNCHANGED <<notPaceVars, clock, sendBPS, nextSendTime, now, afterFuncs, syncPc,
                   msgLen, paceHist>>

\* lines 453-455: the function given to time.AfterFunc runs, at its time or later
PaceFire(f) ==
    /\ f \in afterFuncs
    /\ f.due <= clock
    /\ afterFuncs' = afterFuncs \ {f}
    /\ wakeUpChan' = IF wakeUpChan < wakeUpChanCap THEN wakeUpChan + 1 ELSE wakeUpChan
    /\ UNCHANGED <<notPaceVars, clock, sendBPS, nextSendTime, now, syncPc, msgLen, paceHist>>

\* lines 409-431: receive a wakeup, read the clock, return to the receive
\* when it is too early, else run doSync; len = 0 stands for no message
PaceRecv(len) ==
    /\ syncPc = "recv"
    /\ wakeUpChan > 0
    /\ wakeUpChan' = wakeUpChan - 1
    /\ now' = clock
    /\ IF tooEarly(nextSendTime, clock)
       THEN /\ len = 0
            /\ paceHist' = [paceHist EXCEPT !.early = IF @ < 1 THEN @ + 1 ELSE @]
            /\ UNCHANGED <<nextSendTime, syncPc, msgLen>>
       ELSE IF len = 0
            THEN /\ nextSendTime' = NilTime
                 /\ UNCHANGED <<syncPc, msgLen, paceHist>>
            ELSE /\ paceHist.sends < MaxSends
                 /\ syncPc' = "send"
                 /\ msgLen' = len
                 /\ UNCHANGED <<nextSendTime, paceHist>>
    /\ UNCHANGED <<notPaceVars, clock, sendBPS, afterFuncs>>

\* lines 433-459: Unicast, the next send time, and the wakeup for it
PaceSend ==
    /\ syncPc = "send"
    /\ LET next == paceBase(nextSendTime, now) + delta(msgLen, sendBPS)
           waitTime == next - now
       IN /\ nextSendTime' = next
          /\ IF waitTime > 0
             THEN /\ afterFuncs' = afterFuncs \cup {[n |-> paceHist.sends, due |-> clock + waitTime]}
                  /\ UNCHANGED wakeUpChan
             ELSE /\ wakeUpChan' = IF wakeUpChan < wakeUpChanCap THEN wakeUpChan + 1
                                   ELSE wakeUpChan
                  /\ UNCHANGED afterFuncs
          /\ paceHist' = [paceHist EXCEPT !.sends = @ + 1,
                                          !.last = [at |-> clock, now |-> now,
                                                    stored |-> nextSendTime, next |-> next,
                                                    len |-> msgLen]]
    /\ syncPc' = "recv"
    /\ UNCHANGED <<notPaceVars, clock, sendBPS, now, msgLen>>

(***************************************************************************)
(* The specifications.                                                     *)
(***************************************************************************)
InitAt(h, r) ==
    /\ eH = h /\ eR = r /\ eStep = stepPropose
    /\ eParts = {} /\ ePV = {} /\ ePC = {}
    /\ mutex = NoThread /\ afterUnlock = <<>>
    /\ sRunning = FALSE /\ sPeers = <<>> /\ sTimer = 0 /\ sFetchCanceler = FALSE
    /\ pId = [x \in Recs |-> 0]
    /\ pRunning = [x \in Recs |-> FALSE]
    /\ pRS = [x \in Recs |-> NilRS]
    /\ pWake = [x \in Recs |-> 0]
    /\ pPc = [x \in Recs |-> "free"]
    /\ pMsg = [x \in Recs |-> NoMsg]
    /\ ePc = "idle" /\ eWaits = <<>> /\ phase = "new"
    /\ rPc = "idle" /\ rWaits = <<>> /\ vPc = "idle"
    /\ fPc = "idle" /\ fetches = 0 /\ fsServer = TRUE
    /\ tState = [k \in Timers |-> "free"]
    /\ sentBP = [p \in Peers |-> {}] /\ dupSent = FALSE
    /\ sentVL = [p \in Peers |-> FALSE] /\ advBPM = [p \in Peers |-> NilMask]
    /\ ioHist = {}
    /\ vlHist = [p \in Peers |-> NoVL]
    /\ ret = [Start |-> "none", OnReceive |-> "none"]

\* the engine is at its first height when the synchronizer is made
Init == InitAt(1, 0) /\ PaceInit(configSendBPS)
\* the engine is in the last round of its last height
InitLast == InitAt(MaxHeight, MaxRound) /\ PaceInit(configSendBPS)
\* the synchronizer as it is made, in a build with a cap
InitPace == InitAt(1, 0) /\ \E bps \in Caps : PaceInit(bps)

\* a peer task that sends what it chooses
TaskNext(oks) ==
    \E r \in Recs :
        \/ TaskWake(r)
        \/ TaskLock(r)
        \/ TaskUnlock(r)
        \/ \E ok \in oks : TaskSend(r, ok)

\* a peer task that finds nothing to send
TaskQuietNext == \E r \in Recs : TaskWake(r) \/ TaskLock(r) \/ TaskUnlock(r)

TimerNext == \E k \in Timers : TimerFire(k) \/ TimerLock(k) \/ TimerUnlock(k)

EventNext ==
    \/ \E id \in Peers : OnJoin(id) \/ OnLeave(id)
    \/ ReactorUnlock
    \/ ReactorJoin

ReceiveNext(msgs, ids) ==
    \/ \E id \in ids : \E m \in msgs : OnReceive(m, id)
    \/ OnFailure
    \/ ReceiveUnlock

FsmNext == FsmCall("callBlock") \/ FsmCall("callEnd") \/ FsmLock \/ FsmUnlock

\* Gossip to one peer: the engine runs from its first height, the peer sends
\* round states, block parts and vote lists; the synchronizer is started
\* once and not stopped.
NextSync ==
    \/ TaskNext(BOOLEAN)
    \/ ReceiveNext({InBad} \cup RoundStates(RSNear) \cup VoteLists \cup BlockParts, {1})
    \/ EngineStep
    \/ \E regOk \in BOOLEAN : \E ids \in SUBSET {1} :
         EngineStart(phase = "new", regOk, ids)
    \/ EngineUnlock

SpecSync == Init /\ [][NextSync]_vars

\* Fast sync: every peer is far ahead; the fetch delivers blocks and ends;
\* the synchronizer is started once and stopped once.
NextFetch ==
    \/ TaskQuietNext
    \/ ReceiveNext(RoundStates(RSFar), Peers)
    \/ FsmNext
    \/ EngineStep
    \/ \E ids \in {Peers} : EngineStart(phase = "new", TRUE, ids)
    \/ EngineStop(phase = "started")
    \/ EngineUnlock
    \/ EngineJoin

SpecFetch == Init /\ [][NextFetch]_vars

\* Life cycle: peers join and leave, the timer fires, the synchronizer is
\* started once and stopped once; the engine is in its last round and one
\* peer is a round behind it.
NextLife ==
    \/ TaskNext({TRUE})
    \/ TimerNext
    \/ EventNext
    \/ ReceiveNext({InRoundState(RSBehindRound)}, {1})
    \/ EngineStep
    \/ \E regOk \in BOOLEAN : \E ids \in SUBSET Peers :
         EngineStart(phase = "new", regOk, ids)
    \/ EngineStop(phase = "started")
    \/ EngineUnlock
    \/ EngineJoin

SpecLife == InitLast /\ [][NextLife]_vars

\* Every thread that takes the mutex: the peer tasks, the reactor's two
\* threads, the timer, the fast-sync client and the engine.
NextAll ==
    \/ TaskQuietNext
    \/ TimerNext
    \/ EventNext
    \/ ReceiveNext({InRoundState(RS(FarHeight, 0, TRUE, NilMask, {}, {}))}, {1})
    \/ FsmNext
    \/ EngineStep
    \/ \E regOk \in BOOLEAN : \E ids \in SUBSET Peers :
         EngineStart(phase = "new", regOk, ids)
    \/ EngineStop(phase = "started")
    \/ EngineUnlock
    \/ EngineJoin

SpecAll == InitLast /\ [][NextAll]_vars

\* Membership: Start, Stop, OnJoin and OnLeave in any order, Start on a
\* synchronizer that is not running.
NextJoin ==
    \/ TaskNext({TRUE})
    \/ EventNext
    \/ ReceiveNext({InRoundState(RSBehindRound)}, Peers)
    \/ \E regOk \in BOOLEAN : \E ids \in SUBSET Peers : EngineStart(~sRunning, regOk, ids)
    \/ EngineStop(TRUE)
    \/ EngineUnlock
    \/ EngineJoin

SpecJoin == InitLast /\ [][NextJoin]_vars

\* Callbacks of every kind, before Start, while running and after Stop: the
\* reactor delivers every kind of message, peers join and leave, the fetch
\* calls back and the engine changes step.
IdleMsgs ==
    {InBad, InRoundState(RS(FarHeight, 0, TRUE, NilMask, {}, {})), InVoteList({0}, {})}
    \cup {InBlockPart(MaxHeight, 0, res) : res \in {"added", "rejected", "ignored"}}

NextIdle ==
    \/ TaskQuietNext
    \/ EventNext
    \/ ReceiveNext(IdleMsgs, {1})
    \/ FsmNext
    \/ EngineStep
    \/ \E ids \in SUBSET {1} : EngineStart(phase = "new", TRUE, ids)
    \/ EngineStop(phase = "started")
    \/ EngineUnlock
    \/ EngineJoin

SpecIdle == InitLast /\ [][NextIdle]_vars

\* Votes: the engine goes through the rounds of its first height while one
\* peer advertises its votes of the first round, or the last round without
\* votes, or that it wants no gossip, and sends vote lists.
RSVotes ==
    {RS(1, 0, TRUE, NilMask, pv, pc) : pv \in SUBSET (0..(NVal - 1)),
                                       pc \in SUBSET (0..(NVal - 1))}
    \cup {RS(1, MaxRound, TRUE, NilMask, {}, {}), RS(1, 0, FALSE, NilMask, {}, {})}

NextVotes ==
    \/ TaskNext({TRUE})
    \/ ReceiveNext(RoundStates(RSVotes) \cup VoteLists, {1})
    \/ EngineStep
    \/ EngineStart(phase = "new", TRUE, {1})
    \/ EngineUnlock

SpecVotes == Init /\ [][NextVotes]_vars

\* Step changes: the engine goes through the steps, rounds and heights while
\* the timer fires; of the two neighbors one has advertised a round state
\* that asks for no gossip, the other has advertised nothing.
RSNoSync == RS(1, 0, FALSE, NilMask, {}, {})

NextStep ==
    \/ TaskQuietNext
    \/ TimerNext
    \/ ReceiveNext({InRoundState(RSNoSync)}, {1})
    \/ EngineStep
    \/ \E ids \in SUBSET Peers : EngineStart(phase = "new", TRUE, ids)
    \/ EngineUnlock

SpecStep == Init /\ [][NextStep]_vars

\* Block parts: two neighbors advertise heights with and without a
\* block-parts mask and ask for no gossip, so that their tasks send nothing;
\* the engine goes through its steps and is given block parts.
RSParts ==
    {RS(h, 0, FALSE, bpm, {}, {}) : h \in 1..MaxHeight,
                                    bpm \in {NilMask, MaskOf(NParts, {})}}

NextParts ==
    \/ TaskQuietNext
    \/ ReceiveNext(RoundStates(RSParts) \cup BlockParts, Peers)
    \/ EngineStep
    \/ EngineStart(phase = "new", TRUE, Peers)
    \/ EngineUnlock

SpecParts == Init /\ [][NextParts]_vars

(***************************************************************************)
(* Commit propagation to one peer, with the fairness of the scheduler: a   *)
(* task that can run does run, a task waiting for the mutex gets it, and   *)
(* every holder of the mutex releases it.  No send fails, and the peer     *)
(* sends no RoundState while it is being served.                           *)
(***************************************************************************)
\* the peer of record r has asked for gossip and is behind the engine
Behind(r) ==
    /\ r \in SeqSet(sPeers)
    /\ pRS[r] # NilRS
    /\ pRS[r].Sync
    /\ peerBehind(pRS[r])

ReceiveCalm(m, id) ==
    /\ m.kind = "RoundState" => \A r \in Recs : pId[r] = id => ~Behind(r)
    /\ OnReceive(m, id)

NextLive ==
    \/ TaskNext({TRUE})
    \/ \E m \in RoundStates(RSNear) \cup BlockParts : ReceiveCalm(m, 1)
    \/ ReceiveUnlock
    \/ EngineStep
    \/ EngineStart(phase = "new", TRUE, {1})
    \/ EngineUnlock

FairLive ==
    /\ \A r \in Recs : WF_vars(TaskWake(r))
    /\ \A r \in Recs : SF_vars(TaskLock(r))
    /\ \A r \in Recs : WF_vars(TaskUnlock(r))
    /\ \A r \in Recs : WF_vars(TaskSend(r, TRUE))
    /\ WF_vars(ReceiveUnlock)
    /\ WF_vars(EngineUnlock)

LiveSync == Init /\ [][NextLive]_vars /\ FairLive

(***************************************************************************)
(* The periodic broadcast, with the fairness of the runtime: an armed      *)
(* timer fires, a callback waiting for the mutex gets it, and every holder *)
(* of the mutex releases it.  The synchronizer is started with or without  *)
(* a neighbor and may be stopped.                                          *)
(***************************************************************************)
NextTimer ==
    \/ TaskQuietNext
    \/ TimerNext
    \/ EngineStep
    \/ \E ids \in SUBSET {1} : EngineStart(phase = "new", TRUE, ids)
    \/ EngineStop(phase = "started")
    \/ EngineUnlock
    \/ EngineJoin

FairTimer ==
    /\ \A k \in Timers : WF_vars(TimerFire(k))
    /\ \A k \in Timers : SF_vars(TimerLock(k))
    /\ \A k \in Timers : WF_vars(TimerUnlock(k))
    /\ \A r \in Recs : WF_vars(TaskUnlock(r))
    /\ WF_vars(EngineUnlock)

LiveTimer == InitLast /\ [][NextTimer]_vars /\ FairTimer

(***************************************************************************)
(* Properties.                                                             *)
(***************************************************************************)
\* the task of record r has nothing chosen and nothing to wake it
Quiet(r) == pPc[r] = "idle" /\ pWake[r] = 0 /\ pMsg[r] = NoMsg
\* the parts of the peer's height that the engine has
Available(r) == PartSetMask(pRS[r].Height).bits
PartsSent(r, I) == \A i \in I : <<pRS[r].Height, i>> \in sentBP[pId[r]]

\* C1: between two consecutive RoundState updates received from a peer, the
\* peer's task sends each block part (h, i) to it at most once.
BlockPartSentOnce == ~dupSent

\* C2, as stated: a peer that is behind and is sent nothing more has been
\* sent the commit precommits of its height and every available block part.
CommitListAndAllParts ==
    \A r \in Recs :
        Behind(r) /\ Quiet(r) => sentVL[pId[r]] /\ PartsSent(r, Available(r))

\* what a served peer has been sent: with no mask advertised, the commit
\* precommits and every available part; with a mask advertised, the
\* available parts that are not in the mask
Served(r) ==
    /\ pId[r] \in Peers
    /\ IF advBPM[pId[r]] = NilMask
       THEN sentVL[pId[r]] /\ PartsSent(r, Available(r))
       ELSE PartsSent(r, Available(r) \ advBPM[pId[r]].bits)

\* with no mask advertised, a block part follows the commit precommits;
\* with a mask advertised, no vote list and no part of the mask is sent
ServedInOrder(id) ==
    LET adv == advBPM[id] IN
    IF adv = NilMask
    THEN sentBP[id] # {} => sentVL[id]
    ELSE ~sentVL[id] /\ \A bp \in sentBP[id] : bp[2] \notin adv.bits

\* C2, amended: a peer that is behind is eventually sent the commit
\* precommits followed by every available part when it advertised no mask,
\* and only the available parts outside its mask when it advertised one.
CommitPropagation ==
    /\ \A r \in Recs : Behind(r) ~> Served(r)
    /\ [](\A id \in Peers : ServedInOrder(id))

CommitPropagated ==
    \E r \in Recs :
        /\ Behind(r) /\ Served(r) /\ Quiet(r)
        /\ advBPM[pId[r]] = NilMask
        /\ Cardinality(sentBP[pId[r]]) = NParts

\* the peer of record r is more than the threshold ahead of the engine
FarAhead(r) ==
    /\ r \in SeqSet(sPeers)
    /\ pRS[r] # NilRS /\ pRS[r].Sync
    /\ pRS[r].Height > eH + configFastSyncThreshold

\* C3: at most one fast-sync fetch is outstanding, and the synchronizer
\* holds the cancel handle of the fetch that is.
OneFetchOutstanding == fetches <= 1 /\ (fetches = 1 => sFetchCanceler)

\* every peer is far ahead, every task has run doSync and one fetch is out
FetchOutAllFarAhead ==
    /\ fetches = 1
    /\ Len(sPeers) = NPeers
    /\ \A r \in SeqSet(sPeers) : FarAhead(r) /\ Quiet(r)

\* C4: once Stop has run, no peer task is in doSync, no timer callback
\* broadcasts or arms a timer, and no timer is stored or armed.
NothingRunsAfterStop ==
    /\ \A r \in Recs : pPc[r] = "sync" => sRunning /\ pRunning[r]
    /\ \A k \in Timers : tState[k] = "ran" => sRunning
    /\ ~sRunning => sTimer = 0 /\ \A k \in Timers : tState[k] # "armed"

\* a timer callback that was pending when Stop ran has found itself stale,
\* and a task has seen the flag
StaleCallbackAfterStop ==
    /\ phase = "stopped"
    /\ \E k \in Timers : tState[k] = "stale"
    /\ \E r \in Recs : pPc[r] \in {"signal", "exit"}

\* C5: when no OnJoin or OnLeave call is in progress, every task that can
\* still send belongs to a record of the peer list: the task of a peer
\* that has left has ended.
NoSendAfterLeave ==
    rPc = "idle" => \A r \in Recs \ SeqSet(sPeers) : pPc[r] = "free"

\* OnLeave waits for the task of the removed record, which has chosen a
\* message and has not sent it yet
LeaveWaitsForSender ==
    \E r \in Recs \ SeqSet(sPeers) :
        /\ pPc[r] = "send"
        /\ r \in SeqSet(rWaits)

\* the threads inside a critical section of the synchronizer
InCS ==
    {PeerT(r) : r \in {x \in Recs : pPc[x] \in {"sync", "stopcs"}}}
    \cup {TimerT(k) : k \in {x \in Timers : tState[x] \in {"stale", "ran"}}}
    \cup (IF rPc = "unlock" THEN {ReactorT} ELSE {})
    \cup (IF vPc = "unlock" THEN {<<"receive", 0>>} ELSE {})
    \cup (IF fPc = "unlock" THEN {FsmT} ELSE {})
    \cup (IF ePc = "unlock" THEN {EngineT} ELSE {})

\* C6: a thread inside doSync, a reactor callback, OnBlock, OnEnd or the
\* timer handler holds the mutex, so no two of them are inside at once.
MutualExclusion == \A t \in InCS : mutex = t /\ InCS = {t}

\* a task is inside doSync while the timer's callback, the fast-sync
\* client's callback and another task wait for the mutex
TaskInsideOthersWait ==
    /\ \E r \in Recs : pPc[r] = "sync"
    /\ \E r \in Recs : pPc[r] = "lock"
    /\ \E k \in Timers : tState[k] = "fired"
    /\ fPc \in {"callBlock", "callEnd"}

\* C7: every unicast and broadcast of a peer task, of OnJoin and of the
\* timer's handler is made while the sender does not hold the mutex.
SendsUnlocked == \A io \in ioHist : io[1] # "caller" => io[2] = FALSE

\* the stoppers and the records whose done signal they wait for
Awaited == SeqSet(afterUnlock) \cup SeqSet(eWaits) \cup SeqSet(rWaits)

\* C8: a stopped task has a wakeup to come or is past it, a task that
\* ends has seen running = false, no thread waits for a done signal while
\* it holds the mutex, and every awaited task is still to signal.
StopNoDeadlock ==
    /\ ePc = "join" => mutex # EngineT
    /\ rPc = "join" => mutex # ReactorT
    /\ \A r \in Recs : pPc[r] \in {"stopcs", "signal", "exit"} => ~pRunning[r]
    /\ \A r \in Recs : pPc[r] = "idle" /\ ~pRunning[r] => pWake[r] = 1
    /\ \A r \in Awaited : pPc[r] \notin {"free", "exit"}

\* OnLeave waits for the done signal without the mutex while the task it
\* stopped waits for the mutex, which another thread holds
StopperWaitsUnlocked ==
    /\ rPc = "join"
    /\ mutex \notin {NoThread, ReactorT}
    /\ \E r \in SeqSet(rWaits) : pPc[r] = "lock" /\ ~pRunning[r]

\* C9: the peer list holds at most one record per peer identity.
UniquePeerIds ==
    \A i, j \in 1..Len(sPeers) :
        i # j => sPeers[i] # sPeers[j] /\ pId[sPeers[i]] # pId[sPeers[j]]

\* a callback of the event thread has run on a full list and has added and
\* removed nothing: an OnJoin of a peer that is in the list
JoinOfListedPeer ==
    /\ sRunning /\ rPc = "unlock" /\ afterUnlock = <<>>
    /\ Len(sPeers) = NPeers
    /\ \A r \in SeqSet(sPeers) : pRS[r] # NilRS

\* C10: while the synchronizer runs, OnJoin of a peer that is in the list
\* changes nothing, and the peer has one record and one running task.
JoinIdempotent ==
    [][\A id \in Peers :
          sRunning /\ id \in IdsOf(sPeers) /\ OnJoin(id)
          => /\ UNCHANGED <<syncerVars, peerVars, tState, histVars>>
             /\ Cardinality({i \in 1..Len(sPeers') : pId'[sPeers'[i]] = id}) = 1
             /\ Cardinality({r \in Recs : pId'[r] = id /\ pRunning'[r]
                                          /\ pPc'[r] \notin {"free", "exit"}}) = 1]_vars

\* as JoinOfListedPeer, with every task about to send
JoinOfSendingPeer ==
    /\ sRunning /\ rPc = "unlock" /\ afterUnlock = <<>>
    /\ Len(sPeers) = NPeers
    /\ \A r \in SeqSet(sPeers) : pPc[r] = "send"

\* C11: a peer record exists only for a neighbor of a running synchronizer;
\* in particular the peer list is empty whenever the synchronizer is not
\* running and no call of Start or Stop is in progress: before Start and
\* after Stop has returned.
PeerRecordsOnlyWhileRunning == ~sRunning /\ ePc = "idle" => sPeers = <<>>

\* C12: while the synchronizer is not running, OnReceive, OnFailure, OnJoin,
\* OnLeave, OnBlock, OnEnd and OnEngineStepChange change neither the peer
\* list, any peer record, the timer nor the fetch handle, send nothing and
\* give nothing to the engine; OnReceive returns (false, nil).
CallbacksIdleWhenNotRunning ==
    [][/\ ~sRunning
       /\ \/ \E id \in Peers : OnJoin(id) \/ OnLeave(id)
          \/ \E id \in Peers : \E m \in IdleMsgs : OnReceive(m, id)
          \/ OnFailure
          \/ FsmLock
          \/ EngineStep
       => /\ UNCHANGED <<syncerVars, peerVars, tState, fetches, afterUnlock, histVars>>
          /\ EngineStep \/ UNCHANGED engineVars
          /\ vPc' = "unlock" /\ vPc = "idle" => ret'.OnReceive \in {"none", "false, nil"}]_vars

\* OnReceive has returned (false, nil) after Stop, with the stopped peers'
\* records still in the list
ReceivedAfterStop ==
    /\ phase = "stopped"
    /\ vPc = "unlock"
    /\ ret.OnReceive = "false, nil"
    /\ sPeers # <<>>

\* C13: between two RoundStates received from a peer, at most one VoteList
\* is sent to it for any one round.
VoteListOncePerRound == \A id \in Peers : ~vlHist[id].dup

\* C14: to a lagging peer whose last RoundState carried no block-parts
\* mask, at most one commit VoteList is sent until its next RoundState, and
\* a BlockPart is sent only after that VoteList.
OneCommitListBeforeParts ==
    \A r \in Recs :
        Behind(r) /\ advBPM[pId[r]] = NilMask
        => /\ vlHist[pId[r]].commits <= 1
           /\ sentBP[pId[r]] # {} => vlHist[pId[r]].commits = 1

\* the peer of record r has asked for gossip and is above the engine's height
AheadOf(r) == pRS[r] # NilRS /\ pRS[r].Sync /\ pRS[r].Height > eH
\* the peer is beyond the threshold and no fetch is outstanding
FetchExpected(r) ==
    pRS[r].Height > eH + configFastSyncThreshold /\ ~sFetchCanceler
FetchFromHere == [from |-> eH, to |-> -1, anchor |-> eH - 1]

\* C15, as stated: doSync for a peer above the engine's height sends
\* nothing, and starts a fetch (from H to -1, anchored at H-1, handle
\* stored) exactly when the peer is beyond the threshold and no fetch is
\* outstanding.
FetchIffBeyondThreshold ==
    \A r \in Recs : AheadOf(r) =>
        \A bmOk \in BOOLEAN : \A res \in doSync(r, bmOk) :
            /\ res.msg = NoMsg
            /\ res.fetch # NoFetch <=> FetchExpected(r)
            /\ res.fetch # NoFetch => res.fetch = FetchFromHere /\ res.fc

\* C15, amended: the fetch is started exactly when, in addition, the block
\* manager returns the block at H-1; otherwise the handle and the peer's
\* round state are left as they are.
FetchIffBeyondThresholdAndAnchor ==
    \A r \in Recs : AheadOf(r) =>
        \A bmOk \in BOOLEAN : \A res \in doSync(r, bmOk) :
            /\ res.msg = NoMsg
            /\ res.rs = pRS[r]
            /\ res.fetch # NoFetch <=> FetchExpected(r) /\ bmOk
            /\ res.fetch # NoFetch => res.fetch = FetchFromHere /\ res.fc
            /\ res.fetch = NoFetch => res.fc = sFetchCanceler

\* a task has started the fetch for its peer beyond the threshold while
\* another peer is exactly the threshold above the engine
FetchStartedBesideGap ==
    \E r, q \in SeqSet(sPeers) :
        /\ pPc[r] = "sync" /\ AheadOf(r) /\ pMsg[r] = NoMsg
        /\ pRS[r].Height > eH + configFastSyncThreshold
        /\ sFetchCanceler /\ fetches = 1
        /\ AheadOf(q) /\ pRS[q].Height = eH + configFastSyncThreshold

\* the peer of record r has asked for gossip and is at the engine's height,
\* which is not being committed
AtHeight(r) ==
    /\ pRS[r] # NilRS /\ pRS[r].Sync
    /\ pRS[r].Height = eH /\ eStep < stepCommit
\* what doSync returns when it sends nothing, and when it sends m and clears P
Nothing(r) == [msg |-> NoMsg, rs |-> pRS[r], fc |-> sFetchCanceler, fetch |-> NoFetch]
SendAndClear(m) == [msg |-> m, rs |-> NilRS, fc |-> sFetchCanceler, fetch |-> NoFetch]
\* the votes of the engine's round at the positions the peer's masks lack
VotesLacking(r) ==
    [pv |-> ePV \ pRS[r].PrevotesMask.bits, pc |-> ePC \ pRS[r].PrecommitsMask.bits]

\* C16: for a peer at the engine's height and round, doSync sends one
\* VoteList holding the engine's votes of the round at the positions outside
\* the peer's masks and clears P; when there is no such vote it sends
\* nothing and keeps P.
SameRoundVoteFill ==
    \A r \in Recs : AtHeight(r) /\ pRS[r].Round = eR =>
        \A bmOk \in BOOLEAN :
            doSync(r, bmOk) =
                {IF VotesLacking(r).pv \cup VotesLacking(r).pc # {}
                 THEN SendAndClear(VoteListMsg("votes", eH, eR, VotesLacking(r).pv,
                                               VotesLacking(r).pc))
                 ELSE Nothing(r)}

\* a task is about to send the prevote the peer lacks, without the
\* precommit the peer has, and P is cleared
VoteFillChosen ==
    \E r \in Recs :
        /\ pPc[r] = "send" /\ pMsg[r].what = "votes"
        /\ pMsg[r].pv # {} /\ pMsg[r].pc = {} /\ ePC # {}
        /\ pRS[r] = NilRS

\* C17: for a peer at the engine's height in an earlier round, doSync sends
\* one VoteList and clears P: the precommits of the engine's round when the
\* step is precommit-wait or later, of the round before it otherwise.
EarlierRoundPrecommits ==
    \A r \in Recs : AtHeight(r) /\ pRS[r].Round < eR =>
        \A bmOk \in BOOLEAN :
            doSync(r, bmOk) =
                {SendAndClear(VoteListMsg("precommits", eH,
                                          IF eStep >= stepPrecommitWait THEN eR ELSE eR - 1,
                                          {}, {}))}

\* a task is about to send the precommits of the round before the engine's
PrevRoundChosen ==
    \E r \in Recs :
        /\ pPc[r] = "send" /\ pMsg[r].what = "precommits"
        /\ pMsg[r].Round = eR - 1 /\ eStep < stepPrecommitWait
        /\ pRS[r] = NilRS

\* C18: OnReceive of a message that fails unmarshalMessage or verify
\* returns that error, gives nothing to the engine, wakes no peer and
\* leaves the peer list and every peer's round state unchanged.
BadMessageRejected ==
    [][\A id \in Peers :
          sRunning /\ OnReceive(InBad, id)
          => /\ ret'.OnReceive = "false, message error"
             /\ UNCHANGED <<engineVars, syncerVars, peerVars, tState, fetches,
                            histVars>>]_vars

\* OnReceive has returned the message's error on a running synchronizer
\* whose peer has advertised a round state
BadMessageReturned ==
    /\ sRunning
    /\ vPc = "unlock"
    /\ ret.OnReceive = "false, message error"
    /\ \E r \in SeqSet(sPeers) : pRS[r] # NilRS /\ pPc[r] = "idle" /\ pWake[r] = 0

\* C19: when RegisterReactor fails, Start returns the error and the
\* synchronizer stays not running: no peer record or task is made, nothing
\* is broadcast and no timer is armed.
StartFailureChangesNothing ==
    [][\A ids \in SUBSET Peers :
          ~sRunning /\ EngineStart(TRUE, FALSE, ids)
          => /\ ret'.Start = "err"
             /\ ~sRunning'
             /\ UNCHANGED <<syncerVars, peerVars, tState, fetches, histVars>>]_vars

\* Start has returned the error of the registration
StartFailed ==
    /\ ret.Start = "err"
    /\ ePc = "unlock"
    /\ ~sRunning
    /\ \A k \in Timers : tState[k] # "armed"

\* C20: at most one timer is armed and it is the stored one; the callback of
\* a timer that has been replaced, also one that had fired and was waiting
\* for the mutex, broadcasts nothing and arms nothing.
TimerReplacement ==
    /\ [](/\ Cardinality({k \in Timers : tState[k] = "armed"}) <= 1
          /\ \A k \in Timers : tState[k] = "armed" => sTimer = k)
    /\ [][\A k \in Timers :
             TimerLock(k) /\ sTimer # k
             => /\ UNCHANGED <<sTimer, ioHist>>
                /\ tState' = [tState EXCEPT ![k] = "stale"]]_vars

\* on a running synchronizer the callback of a replaced timer has returned
\* without effect while the timer that replaced it is armed
ReplacedCallbackReturned ==
    /\ sRunning
    /\ \E k, j \in Timers :
          /\ k # j
          /\ tState[k] = "stale"
          /\ tState[j] = "armed" /\ sTimer = j

\* a step that calls sendRoundStateMessage: a successful Start, a step change
\* to propose or commit while running, the callback of the stored timer
ExplicitBroadcast ==
    \/ \E ids \in SUBSET Peers : EngineStart(TRUE, TRUE, ids)
    \/ sRunning /\ EngineStep /\ eStep' \in {stepPropose, stepCommit}
    \/ \E k \in Timers : TimerLock(k) /\ sTimer = k
\* the timer's callback is inside sendRoundStateMessage's caller: it has
\* broadcast again and armed the next timer
Rebroadcast == \E k \in Timers : tState[k] = "ran"

\* C21: every explicit broadcast leaves a timer armed and stored; a timer
\* callback broadcasts and re-arms only when the synchronizer is running and
\* its timer is the stored one, and then it does both; while the
\* synchronizer stays running the re-broadcast recurs forever.
PeriodicBroadcast ==
    /\ [][ExplicitBroadcast => sTimer' # 0 /\ tState'[sTimer'] = "armed"]_vars
    /\ [][\A k \in Timers :
             TimerLock(k)
             => IF sRunning /\ sTimer = k
                THEN /\ tState'[k] = "ran"
                     /\ ioHist' = broadcastIO(ioHist, "timer", sPeers, TimerT(k))
                ELSE /\ tState'[k] = "stale"
                     /\ UNCHANGED <<sTimer, ioHist>>]_vars
    /\ <>[]sRunning => []<>Rebroadcast

\* the callback of a timer that a callback armed has broadcast to the
\* neighbor in its turn
SecondRebroadcast ==
    /\ sRunning /\ sPeers # <<>>
    /\ tState[2] = "ran" /\ tState[1] = "armed" /\ sTimer = 1
    /\ <<"timer", TRUE>> \in ioHist

\* a fetch is outstanding while it runs and, once it has ended, until the
\* synchronizer has taken note of it: OnEnd has been called and waits for
\* the mutex, and Stop has not run
FetchOutstanding == fetches > 0 \/ (fPc = "callEnd" /\ sRunning)

\* C22: the cancel handle is stored exactly while a fetch is outstanding:
\* doSync stores it when it starts a fetch, OnEnd clears it, and Stop cancels
\* the fetch and clears it, so after Stop there is neither fetch nor handle.
HandleIffFetchOutstanding ==
    /\ [](sFetchCanceler <=> FetchOutstanding)
    /\ [](~sRunning => ~sFetchCanceler /\ fetches = 0)
    /\ [][\A r \in Recs : TaskLock(r) /\ fetches' # fetches
             => ~sFetchCanceler /\ sFetchCanceler' /\ fetches' = 1]_vars
    /\ [][FsmLock /\ fPc = "callEnd" /\ sRunning => ~sFetchCanceler']_vars
    /\ [][EngineStop(TRUE) => ~sFetchCanceler' /\ fetches' = 0]_vars

\* Stop has cancelled a fetch that was delivering a block, and the handle is
\* gone
FetchCancelledByStop ==
    /\ phase = "stopped" /\ ePc = "unlock"
    /\ fPc = "callBlock"
    /\ fetches = 0 /\ ~sFetchCanceler

\* C23: whenever the synchronizer is running, also after a Stop followed by
\* another Start, the fast-sync server is started, and once the synchronizer
\* has been stopped and is not running the server is stopped.
ServerFollowsRunning ==
    /\ sRunning => fsServer
    /\ phase = "stopped" /\ ~sRunning => ~fsServer

\* what a step change of a running synchronizer does when it wakes the
\* records of W at the steps precommit-wait and commit
StepChangeWakes(W) ==
    sRunning /\ EngineStep
    => /\ pWake' = wakeUpAll(pWake, IF eStep' \in {stepPrecommitWait, stepCommit}
                                    THEN W ELSE {})
       /\ IF eStep' \in {stepPropose, stepCommit}
          THEN /\ sTimer' = sendRoundStateMessage.cur
               /\ tState' = sendRoundStateMessage.st
               /\ ioHist' = broadcastIO(ioHist, "caller", sPeers, EngineT)
          ELSE UNCHANGED <<sTimer, tState, ioHist>>

\* C24, as stated: OnEngineStepChange on a running synchronizer wakes every
\* peer at the steps precommit-wait and commit, broadcasts the RoundState
\* and re-arms the timer at the steps propose and commit, and does neither
\* at any other step.
StepChangeWakesAll == [][StepChangeWakes(SeqSet(sPeers))]_vars

\* C24, amended: the peers woken are those whose round state is present.
StepChangeWakesAdvertised ==
    [][StepChangeWakes({r \in SeqSet(sPeers) : pRS[r] # NilRS})]_vars

\* the engine has moved to commit: the peer with a round state has a wakeup
\* pending, the peer without one has none, and the timer that had fired is
\* replaced by a new one
WokenAtCommit ==
    /\ sRunning /\ ePc = "unlock" /\ eStep = stepCommit
    /\ \E r, q \in SeqSet(sPeers) :
          /\ pRS[r] # NilRS /\ pPc[r] = "idle" /\ pWake[r] = 1
          /\ pRS[q] = NilRS /\ pPc[q] = "idle" /\ pWake[q] = 0
    /\ tState[1] = "fired" /\ tState[2] = "armed" /\ sTimer = 2

\* C25: OnReceive of a RoundState on a running synchronizer stores it in the
\* record of the sender and posts a wakeup for that record only; the other
\* records, the peer list, the timer and the fetch handle are unchanged, and
\* with no record of the sender nothing changes.
RoundStateUpdatesSender ==
    [][\A id \in Peers : \A m \in RoundStates({RSBehindRound}) :
          sRunning /\ OnReceive(m, id)
          => /\ UNCHANGED <<engineVars, syncerVars, pId, pRunning, pPc, pMsg, tState,
                            fetches, afterUnlock>>
             /\ ret'.OnReceive = "true, nil"
             /\ IF RecOf(id) = 0
                THEN UNCHANGED <<pRS, pWake, histVars>>
                ELSE /\ Cardinality({i \in 1..Len(sPeers) : pId[sPeers[i]] = id}) = 1
                     /\ pRS' = [pRS EXCEPT ![RecOf(id)] = m.rs]
                     /\ pWake' = [pWake EXCEPT ![RecOf(id)] = 1]]_vars

\* a RoundState has been stored for one of two listed peers: its task has a
\* wakeup pending, the other peer has no round state and no wakeup
RoundStateStoredForOne ==
    /\ sRunning /\ vPc = "unlock" /\ ret.OnReceive = "true, nil"
    /\ \E r, q \in SeqSet(sPeers) :
          /\ pRS[r] = RSBehindRound /\ pPc[r] = "idle" /\ pWake[r] = 1
          /\ pRS[q] = NilRS /\ pPc[q] = "idle" /\ pWake[q] = 0

\* the peer of record r is inside the commit of the height the engine is at
\* and the message is for
InCommitOf(r, h) ==
    /\ r \in SeqSet(sPeers)
    /\ pRS[r] # NilRS /\ pRS[r].BlockPartsMask # NilMask
    /\ pRS[r].Height = h /\ h = eH

\* C26: OnReceive of a BlockPart on a running synchronizer gives it to the
\* engine and then wakes exactly the peers that advertised a block-parts
\* mask at the message's height, which is the engine's; when the engine
\* rejects the part its error is returned and no peer is woken.
BlockPartWakesCommitPeers ==
    [][sRunning /\ vPc = "idle" /\ vPc' = "unlock" =>
       \A id \in Peers : \A m \in BlockParts :
          OnReceive(m, id)
          => /\ UNCHANGED <<syncerVars, pId, pRunning, pRS, pPc, pMsg, tState, fetches,
                            eH, eR, eStep, ePV, ePC>>
             /\ eParts' = IF m.res = "added" THEN eParts \cup {m.Index} ELSE eParts
             /\ IF m.res = "rejected"
                THEN /\ ret'.OnReceive = "false, engine error"
                     /\ UNCHANGED pWake
                ELSE /\ ret'.OnReceive = "true, nil"
                     /\ pWake' = [r \in Recs |-> IF InCommitOf(r, m.Height)
                                                  THEN 1 ELSE pWake[r]]]_vars

\* the engine has taken the last part of the block it is committing; the
\* peer inside that commit, whose task was waiting, has a wakeup pending and
\* the peer that advertised the same height without a mask has none
PartTakenPeerWoken ==
    /\ sRunning /\ vPc = "unlock" /\ ret.OnReceive = "true, nil"
    /\ eStep = stepCommit /\ eParts = Parts
    /\ \E r, q \in SeqSet(sPeers) :
          /\ InCommitOf(r, eH) /\ pPc[r] = "idle" /\ pWake[r] = 1
          /\ pRS[q] # NilRS /\ pRS[q].Height = eH /\ pRS[q].BlockPartsMask = NilMask
          /\ pPc[q] = "idle" /\ pWake[q] = 0

\* C27: OnLeave on a running synchronizer takes the record of the peer out
\* of the list and stops its task; the identities left are the former ones
\* without the peer, every other record keeps its round state and its
\* running task, and with no record of the peer nothing changes.
LeaveRemovesOnlyThePeer ==
    [][sRunning /\ rPc = "idle" /\ rPc' # "idle" =>
       \A id \in Peers :
          OnLeave(id)
          => /\ {pId'[sPeers'[i]] : i \in 1..Len(sPeers')} = IdsOf(sPeers) \ {id}
             /\ UNCHANGED <<engineVars, sRunning, sTimer, sFetchCanceler, pId, pRS, pPc,
                            pMsg, tState, fetches, histVars>>
             /\ IF id \notin IdsOf(sPeers)
                THEN UNCHANGED <<sPeers, pRunning, pWake, afterUnlock>>
                ELSE \E r \in SeqSet(sPeers) :
                       /\ pId[r] = id
                       /\ SeqSet(sPeers') = SeqSet(sPeers) \ {r}
                       /\ Len(sPeers') = Len(sPeers) - 1
                       /\ pRunning' = [pRunning EXCEPT ![r] = FALSE]
                       /\ pWake' = [pWake EXCEPT ![r] = 1]
                       /\ afterUnlock' = afterUnlock \o <<r>>]_vars

\* the first of two listed peers has left: its record is out of the list and
\* its task is stopped, the other peer is listed with its round state and a
\* running task
FirstOfTwoLeft ==
    /\ sRunning /\ rPc = "unlock"
    /\ \E r, q \in Recs :
          /\ r < q
          /\ afterUnlock = <<r>> /\ ~pRunning[r] /\ pWake[r] = 1
          /\ sPeers = <<q>> /\ pRunning[q] /\ pRS[q] = RSBehindRound

\* C28: the wakeup channel of a peer holds at most one wakeup in every
\* state, whatever the number of wakeUp calls since the task last took one,
\* and a pending wakeup goes away only when the task takes it or the record
\* is disposed of.
OneWakeupPending ==
    /\ [](\A r \in Recs : pWake[r] \in 0..wakeUpChanCap)
    /\ [][\A r \in Recs : pWake'[r] < pWake[r]
                            => TaskWake(r) \/ pPc[r] \in {"signal", "exit"}]_vars

\* the engine has moved to precommit-wait and woken a peer whose task had
\* not yet taken the wakeup of its RoundState: one wakeup is pending
WakeupsCollapsed ==
    /\ sRunning /\ ePc = "unlock" /\ eStep = stepPrecommitWait
    /\ \E r \in SeqSet(sPeers) :
          /\ pRS[r] = RSBehindRound /\ pRS[r].Round < eR
          /\ pPc[r] = "idle" /\ pMsg[r] = NoMsg
          /\ pWake[r] = 1

\* the parts of the peer's height the engine has and the peer's mask lacks
PartsLacking(r) == Available(r) \ pRS[r].BlockPartsMask.bits

\* C29: a BlockPart chosen by doSync has the peer's height and an index that
\* the engine's part set has and the peer's mask lacked, and doSync sets that
\* bit and no other; for a peer in the commit stanza with a mask that covers
\* the part set, doSync sends nothing and leaves the mask as it is.
BlockPartChosenFromMissing ==
    \A r \in Recs : \A bmOk \in BOOLEAN : \A res \in doSync(r, bmOk) :
        /\ res.msg.proto = "BlockPart"
           => /\ Behind(r) /\ pRS[r].BlockPartsMask # NilMask
              /\ res.msg.Height = pRS[r].Height
              /\ res.msg.Index \in PartsLacking(r)
              /\ res.rs = [pRS[r] EXCEPT !.BlockPartsMask.bits = @ \cup {res.msg.Index}]
        /\ Behind(r) /\ pRS[r].BlockPartsMask # NilMask
           => IF PartsLacking(r) = {} THEN res = Nothing(r)
              ELSE res.msg.proto = "BlockPart"

\* a task has chosen part 1 for a peer that advertised part 0: both bits
\* are set now
SecondPartChosen ==
    \E r \in SeqSet(sPeers) :
        /\ pPc[r] = "sync" /\ pMsg[r] = BlockPartMsg(pRS[r].Height, 1)
        /\ advBPM[pId[r]] = MaskOf(NParts, {0})
        /\ pRS[r].BlockPartsMask = MaskOf(NParts, {0, 1})
        /\ sentBP[pId[r]] = {}

\* the peer of record r has asked for gossip and is below the engine's
\* height, or at it while the engine commits
InCommitStanza(r) ==
    /\ pRS[r] # NilRS /\ pRS[r].Sync
    /\ pRS[r].Height < eH \/ (pRS[r].Height = eH /\ eStep >= stepCommit)

\* C30: for a peer that is behind, or at the engine's height while it
\* commits, doSync applies the commit stanza whatever the peer's round: the
\* commit precommits without a mask, a block part or nothing with one, and P
\* is kept.  A list of a round is chosen only at the engine's height below
\* the commit step: the precommits when the peer's round is earlier, the
\* missing votes only when the rounds are equal.
StanzaPrecedence ==
    \A r \in Recs : \A bmOk \in BOOLEAN : \A res \in doSync(r, bmOk) :
        /\ InCommitStanza(r)
           => /\ res.rs # NilRS
              /\ IF pRS[r].BlockPartsMask = NilMask
                 THEN res.msg = VoteListMsg("commit", pRS[r].Height, -1, {}, {})
                 ELSE res.msg.what \in {"part", "none"}
        /\ res.msg.what \in {"precommits", "votes"}
           => AtHeight(r) /\ res.rs = NilRS
        /\ AtHeight(r) /\ pRS[r].Round < eR => res.msg.what = "precommits"
        /\ res.msg.what = "votes" => pRS[r].Round = eR

\* a task has chosen the commit precommits for a peer at the engine's
\* height whose round is earlier than the engine's
CommitStanzaInLaterRound ==
    \E r \in SeqSet(sPeers) :
        /\ pPc[r] = "sync" /\ pMsg[r].what = "commit"
        /\ pRS[r].Height = eH /\ eStep = stepCommit
        /\ pRS[r].Round < eR
        /\ pRS[r].BlockPartsMask = newBitArray(NParts)
        /\ advBPM[pId[r]] = NilMask

\* the cases in which doSync has nothing to send to the peer of record r: no
\* round state, no gossip asked for, no part lacking in the commit stanza, a
\* later round or no vote lacking at the engine's height
NothingToSend(r) ==
    \/ pRS[r] = NilRS
    \/ ~pRS[r].Sync
    \/ InCommitStanza(r) /\ pRS[r].BlockPartsMask # NilMask /\ PartsLacking(r) = {}
    \/ AtHeight(r) /\ pRS[r].Round > eR
    \/ AtHeight(r) /\ pRS[r].Round = eR
       /\ VotesLacking(r).pv = {} /\ VotesLacking(r).pc = {}

\* C31: in each of these cases doSync returns no message and leaves the
\* peer's round state and the fetch handle as they are, and the task's step
\* that runs it changes neither the peer list nor any round state.
NoMessageNoChange ==
    /\ [](\A r \in Recs : NothingToSend(r)
              => \A bmOk \in BOOLEAN : doSync(r, bmOk) = {Nothing(r)})
    /\ [][\A r \in Recs : TaskLock(r) /\ pRunning[r] /\ NothingToSend(r)
             => /\ pMsg'[r] = NoMsg
                /\ UNCHANGED <<pRS, sPeers, sFetchCanceler, fetches, pId, pRunning>>]_vars

\* a task has run doSync for a peer in a later round than the engine's and
\* has nothing to send
NothingForLaterRound ==
    \E r \in SeqSet(sPeers) :
        /\ pPc[r] = "sync" /\ pMsg[r] = NoMsg
        /\ AtHeight(r) /\ pRS[r].Round > eR
        /\ ePV # {}

\* C32: to a lagging peer that advertised no mask and whose commit block has
\* no part available, at most one commit VoteList is sent and no BlockPart
\* until the peer's next RoundState.
EmptyPartSetOneList ==
    \A r \in Recs :
        Behind(r) /\ Available(r) = {} /\ advBPM[pId[r]] = NilMask
        => /\ vlHist[pId[r]].commits <= 1
           /\ sentBP[pId[r]] = {}

\* C33: without a bandwidth cap the task leaves a wakeup for itself after
\* every send, failed or not, and so runs doSync again with no wakeup from
\* outside; when doSync has chosen nothing the task goes back to wait on its
\* channel and posts no wakeup.
SelfWakeAfterSend ==
    /\ [][\A r \in Recs : \A ok \in BOOLEAN :
             TaskSend(r, ok) => pWake'[r] = 1 /\ pPc'[r] = "idle"]_vars
    /\ [][\A r \in Recs :
             TaskUnlock(r) /\ pPc[r] = "sync"
             => /\ UNCHANGED pWake
                /\ pPc'[r] = IF pMsg[r] = NoMsg THEN "idle" ELSE "send"]_vars
    /\ \A r \in Recs : pPc[r] = "send" ~> pPc[r] = "sync"

\* a task that has sent the commit precommits and one block part is in
\* doSync again and has chosen the other part
ThirdMessageChosen ==
    \E r \in SeqSet(sPeers) :
        /\ pPc[r] = "sync" /\ pMsg[r].proto = "BlockPart"
        /\ sentVL[pId[r]] /\ Cardinality(sentBP[pId[r]]) = 1
        /\ pRS[r].BlockPartsMask.bits = Parts

\* One task of a build with a cap: wakeups from the synchronizer, the clock,
\* the timers it arms, and doSync finding a message or none.
NextPace ==
    \/ PaceTick
    \/ PaceWakeUp
    \/ \E f \in afterFuncs : PaceFire(f)
    \/ \E len \in {0} \cup Sizes : PaceRecv(len)
    \/ PaceSend

SpecPace == InitPace /\ [][NextPace]_vars

\* C34: in a build with a cap a send moves the next send time on by the
\* message's length over the cap and leaves a wakeup that comes no earlier
\* than that time; a wakeup received before the next send time runs no
\* doSync and sends nothing; so no message goes out before the next send time.
PacedSend ==
    /\ [](syncPc = "send" => now <= clock /\ (nextSendTime = NilTime \/ nextSendTime <= now))
    /\ [](paceHist.last.stored # NilTime => paceHist.last.stored <= paceHist.last.at)
    /\ [][PaceSend
          => /\ nextSendTime' = paceBase(nextSendTime, now) + delta(msgLen, sendBPS)
             /\ \/ wakeUpChan' = 1 /\ nextSendTime' <= clock
                \/ \E f \in afterFuncs' \ afterFuncs : f.due >= nextSendTime']_vars
    /\ [][\A len \in {0} \cup Sizes :
             PaceRecv(len) /\ nextSendTime # NilTime /\ clock < nextSendTime
             => /\ syncPc' = "recv"
                /\ UNCHANGED <<nextSendTime, afterFuncs>>
                /\ paceHist'.sends = paceHist.sends]_vars

\* a wakeup has been received too early and dropped, and the task has sent
\* again after its first send
SentAfterEarlyWakeup ==
    /\ paceHist.early > 0
    /\ paceHist.sends >= 2
    /\ paceHist.last.stored # NilTime

\* a send whose stored next send time is already behind the time read at
\* line 419
LateSend == PaceSend /\ nextSendTime # NilTime /\ nextSendTime < now

\* C35 as stated: a send that comes after its stored next send time sets the
\* next send time from the current time.
BurstResetsToNow ==
    [][LateSend => nextSendTime' = now + delta(msgLen, sendBPS)]_vars

\* C35: the next send time is counted from the current time only when none
\* is stored, which is the case before the first send and after a pass in
\* which doSync found no message; a stored one is counted on from, also when
\* it is already past.
BurstKeepsStored ==
    /\ [][LateSend => nextSendTime' = nextSendTime + delta(msgLen, sendBPS)]_vars
    /\ [][PaceSend /\ nextSendTime = NilTime
          => nextSendTime' = now + delta(msgLen, sendBPS)]_vars
    /\ [][nextSendTime # NilTime /\ nextSendTime' = NilTime
          => PaceRecv(0) /\ ~tooEarly(nextSendTime, clock)]_vars

\* the task has sent a message later than its stored next send time
SentLate ==
    /\ paceHist.last.stored # NilTime
    /\ paceHist.last.stored < paceHist.last.now
    /\ paceHist.last.next = paceHist.last.stored + delta(paceHist.last.len, sendBPS)

\* the step is the part of OnReceive that runs under the mutex
ReceiveStep == vPc = "idle" /\ vPc' = "unlock"

\* doSync of record r has written the block-parts mask of its round state
\* and nothing else: a missing mask is made, empty, or one bit is set
MaskWritten(r) ==
    /\ TaskLock(r)
    /\ pRS[r] # NilRS /\ pRS'[r] # NilRS
    /\ pRS'[r] = [pRS[r] EXCEPT !.BlockPartsMask = pRS'[r].BlockPartsMask]
    /\ IF pRS[r].BlockPartsMask = NilMask
       THEN pRS'[r].BlockPartsMask = newBitArray(PartSetParts(pRS[r].Height))
       ELSE /\ pRS'[r].BlockPartsMask.n = pRS[r].BlockPartsMask.n
            /\ pRS[r].BlockPartsMask.bits \subseteq pRS'[r].BlockPartsMask.bits
            /\ Cardinality(pRS'[r].BlockPartsMask.bits \ pRS[r].BlockPartsMask.bits) = 1

\* C36 as stated: a peer's round state changes only by being replaced by a
\* received one or by being cleared.
RoundStateNeverWritten ==
    [][\A r \in Recs : pRS'[r] # pRS[r] => pRS'[r] = NilRS \/ ReceiveStep]_vars

\* C36: the height, round, sync flag, prevotes mask and precommits mask of a
\* peer's round state are never written after it is received; the block-parts
\* mask is written in place by doSync alone, which makes it when it chooses
\* the commit vote list and sets one bit when it chooses a block part; any
\* other change of the record is its replacement by a received round state
\* or its clearing.
OnlyPartsMaskWritten ==
    [][\A r \in Recs :
         pRS'[r] # pRS[r] => pRS'[r] = NilRS \/ ReceiveStep \/ MaskWritten(r)]_vars

\* doSync has made the mask of a round state received without one and has
\* set a bit in it
MaskMadeAndMarked ==
    \E r \in SeqSet(sPeers) :
        /\ pRS[r] # NilRS
        /\ advBPM[pId[r]] = NilMask
        /\ pRS[r].BlockPartsMask.bits # {}
        /\ mutex = PeerT(r)

\* The wakeup of setRoundState, with the fairness of the runtime: the peer
\* sends round states at any time, whatever its task is doing; the
\* synchronizer is started once and may be stopped.
NextWake ==
    \/ TaskNext({TRUE})
    \/ \E m \in RoundStates(RSNear) : OnReceive(m, 1)
    \/ ReceiveUnlock
    \/ EngineStep
    \/ EngineStart(phase = "new", TRUE, {1})
    \/ EngineStop(phase = "started")
    \/ EngineUnlock
    \/ EngineJoin

LiveWake == Init /\ [][NextWake]_vars /\ FairLive

\* C37: setRoundState leaves a wakeup in the channel of the record whatever
\* its task is doing, and a task with a wakeup in its channel gets to run
\* doSync, on the round state then stored, unless the peer is stopped.
NoLostWakeup ==
    /\ [][\A r \in Recs : ReceiveStep /\ pRS'[r] # pRS[r] => pWake'[r] = 1]_vars
    /\ \A r \in Recs :
         (pWake[r] = 1 /\ pPc[r] \in {"idle", "lock", "send"})
         ~> (pPc[r] = "sync" \/ ~pRunning[r])

\* a round state has been set while the task was about to send what it chose
\* from the one before
SetWhileSending ==
    \E r \in SeqSet(sPeers) :
        /\ pPc[r] = "send" /\ pWake[r] = 1 /\ pRunning[r]
        /\ vPc = "unlock"
        /\ pRS[r] # NilRS /\ pRS[r].BlockPartsMask = NilMask /\ pMsg[r].proto = "BlockPart"

\* Stopping, with the fairness of the runtime: Start on a synchronizer that
\* is not running, Stop at any time, peers joining and leaving; a task that
\* can run runs, a waiter for the mutex gets it, every holder releases it,
\* and a done signal that has a receiver is delivered.
NextStop ==
    \/ TaskQuietNext
    \/ EventNext
    \/ \E ids \in SUBSET Peers : EngineStart(~sRunning, TRUE, ids)
    \/ EngineStop(TRUE)
    \/ EngineUnlock
    \/ EngineJoin

FairStop ==
    /\ \A r \in Recs : WF_vars(TaskWake(r))
    /\ \A r \in Recs : SF_vars(TaskLock(r))
    /\ \A r \in Recs : WF_vars(TaskUnlock(r))
    /\ WF_vars(EngineUnlock) /\ WF_vars(ReactorUnlock)
    /\ WF_vars(EngineJoin) /\ WF_vars(ReactorJoin)

LiveStop == InitLast /\ [][NextStop]_vars /\ FairStop

\* C38: whoever waits for a peer's done signal gets it, and a task that
\* offers its done signal finds its receiver.
StopWaitsEnd ==
    /\ (ePc = "join") ~> (ePc # "join")
    /\ (rPc = "join") ~> (rPc # "join")
    /\ \A r \in Recs : (pPc[r] = "signal") ~> (pPc[r] # "signal")

\* a step that gives the tasks something new: a message is received, or the
\* engine changes step, starts or stops the synchronizer
OutsideEvent == ReceiveStep \/ (ePc = "idle" /\ ePc' = "unlock")

\* every task of a running peer waits on its channel and the channel is empty
AllTasksBlocked ==
    \A r \in SeqSet(sPeers) : pRunning[r] => pPc[r] = "idle" /\ pWake[r] = 0

\* C39: once nothing more is received and the engine changes step no more,
\* the tasks come to rest: each waits on an empty wakeup channel, so the
\* wakeup a task gives itself after a send does not keep it sending.
Quiescence == <>[][~OutsideEvent]_vars => <>[]AllTasksBlocked

\* a task is at rest after it has sent the commit vote list and every part
BlockedAfterAllParts ==
    \E r \in SeqSet(sPeers) :
        /\ pRunning[r] /\ pPc[r] = "idle" /\ pWake[r] = 0
        /\ vlHist[pId[r]].commits > 0
        /\ \A i \in Parts : <<pRS[r].Height, i>> \in sentBP[pId[r]]

\* C40: when the peer is beyond the threshold, no fetch is outstanding and
\* the block manager has no block at H-1, doSync starts no fetch, stores no
\* handle, chooses no message and keeps the peer's round state, so the
\* conditions of the fetch still hold and a doSync that finds the block
\* starts it.
AnchorMissingNoFetch ==
    /\ [](\A r \in Recs : AheadOf(r) /\ FetchExpected(r)
            => /\ doSync(r, FALSE) = {Nothing(r)}
               /\ ~Nothing(r).fc
               /\ \E res \in doSync(r, TRUE) : res.fetch = FetchFromHere /\ res.fc)
    /\ [][\A r \in Recs :
            /\ TaskLock(r) /\ pRunning[r] /\ AheadOf(r) /\ FetchExpected(r)
            /\ fetches' = fetches
            => /\ ~sFetchCanceler' /\ pMsg'[r] = NoMsg /\ pRS' = pRS
               /\ (AheadOf(r) /\ FetchExpected(r))']_vars

\* a task has run doSync for a peer beyond the threshold with no fetch
\* outstanding, and none was started
LookupFailedNoFetch ==
    \E r \in SeqSet(sPeers) :
        /\ pPc[r] = "sync" /\ pRunning[r]
        /\ AheadOf(r) /\ FetchExpected(r)
        /\ fetches = 0 /\ ~sFetchCanceler /\ pMsg[r] = NoMsg

====
